---- MODULE Spec2Model ----
(***************************************************************************)
(* Model of the per-transaction trace walker of chunk-analysis             *)
(* (internal/analyzer.go: analyze, analyzeSteps2, handleOps, handlePush)   *)
(* over the bit accessor (BitSet) and the code resolver (getCode).         *)
(*                                                                         *)
(* The step list of a transaction is read strictly left to right, and a    *)
(* frame only ever looks at steps[index] and at the step before it, so the *)
(* list is modelled as a stream: nread steps have been read so far, cur    *)
(* holds steps[nread-1], and the step at index nread is drawn (or the list *)
(* is found to end there) when the walker first reads it.                  *)
(***************************************************************************)
EXTENDS Integers, Sequences, FiniteSets, TLC

\* ------------------------------------------------------------------ bounds
MaxSteps == 5      \* longest step list of the family "frames"
MaxOpSteps == 3    \* longest step list of the family "ops"
MaxDepth == 3      \* deepest call depth of a step, family "frames"
MaxOpDepth == 2    \* deepest call depth of a step, family "ops"
MaxPC    == 3      \* program counters are drawn from 0..MaxPC, family "frames"
MaxOpPC  == 1      \* program counters are drawn from 0..MaxOpPC, family "ops"
MaxTxs == 3        \* most transactions of a block, family "block"
NumCPU == 2        \* runtime.NumCPU(): the limit of the errgroup of a block
CacheCap == 2      \* capacity of the LRU code cache, family "cache"
MaxGets == 4       \* most getCode invocations, family "cache"
MaxBitOps == 5     \* most operations on the two accessors, family "bits"
MaxRetryAttempts == 3  \* largest retryConfig.MaxAttempts, family "retry"
MaxDelayMs == 2     \* largest retryConfig.MaxDelay, family "retry"
UintBits == 3       \* bits of the unsigned block numbers, family "engine"
MaxWorkers == 2     \* most analyzers, family "engine"
MaxWorkerBlocks == 3 \* most blocks one worker is followed through, family "engine"
MaxIters == 8       \* most passes of the loop of analyzeSteps, family "index"

\* ------------------------------------------------------- external sources
\* Code source (eth_getCode at the block): length of the runtime code of each
\* address; "X" is an address whose resolution fails.
CodeLen == [A |-> 33, B |-> 2, E |-> 0, G |-> 0]
Unresolvable == {"X"}
Addrs == {"A", "B", "E", "X"}
\* the word on top of the stack of a call (the gas), not an address of interest
GasWord == "G"

\* Transaction destinations (eth_getTransactionByHash .To)
Destinations == {"A", "E", "X"}

\* ------------------------------------------------------------- mnemonics
\* The walker classifies opcodes by the length and the leading characters of
\* the mnemonic; each mnemonic is spelled out so that the tests are computed.
Spell ==
  [ STOP         |-> <<"S","T","O","P">>,
    ADD          |-> <<"A","D","D">>,
    PUSH0        |-> <<"P","U","S","H","0">>,
    PUSH1        |-> <<"P","U","S","H","1">>,
    PUSH32       |-> <<"P","U","S","H","3","2">>,
    CODESIZE     |-> <<"C","O","D","E","S","I","Z","E">>,
    CODECOPY     |-> <<"C","O","D","E","C","O","P","Y">>,
    EXTCODESIZE  |-> <<"E","X","T","C","O","D","E","S","I","Z","E">>,
    EXTCODEHASH  |-> <<"E","X","T","C","O","D","E","H","A","S","H">>,
    EXTCODECOPY  |-> <<"E","X","T","C","O","D","E","C","O","P","Y">>,
    CALL         |-> <<"C","A","L","L">>,
    CALLCODE     |-> <<"C","A","L","L","C","O","D","E">>,
    DELEGATECALL |-> <<"D","E","L","E","G","A","T","E","C","A","L","L">>,
    STATICCALL   |-> <<"S","T","A","T","I","C","C","A","L","L">>,
    CREATE       |-> <<"C","R","E","A","T","E">>,
    CREATE2      |-> <<"C","R","E","A","T","E","2">> ]

OpLen(op) == Len(Spell[op])
\* op[:n] of Go (the caller has checked the length)
Prefix(op, n) == SubSeq(Spell[op], 1, n)
\* op[n:] of Go
Suffix(op, n) == SubSeq(Spell[op], n + 1, Len(Spell[op]))

OpPush0 == "PUSH0"

Digit == ("0" :> 0) @@ ("1" :> 1) @@ ("2" :> 2) @@ ("3" :> 3) @@ ("4" :> 4) @@
         ("5" :> 5) @@ ("6" :> 6) @@ ("7" :> 7) @@ ("8" :> 8) @@ ("9" :> 9)

RECURSIVE AtoiAcc(_, _)
AtoiAcc(cs, acc) ==
  IF cs = <<>> THEN acc
  ELSE AtoiAcc(Tail(cs), 10 * acc + Digit[Head(cs)])

\* strconv.Atoi on a sequence of characters: [err, n]
Atoi(cs) ==
  IF cs = <<>> \/ \E i \in 1..Len(cs) : cs[i] \notin DOMAIN Digit
  THEN [err |-> TRUE, n |-> 0]
  ELSE [err |-> FALSE, n |-> AtoiAcc(cs, 0)]

\* ---------------------------------------------------------------- BitSet
maxContractBytes == 24576

\* NewBitSet: one bit per byte of the code, none set (size 0 and size above the
\* maximum panic; the walker reaches it with 0 < size only)
NewBitSet(size) == [size |-> size, bits |-> {}]

\* Set without the OR of the mask into the word
Set_NoMark(b, index) ==
  IF index >= b.size THEN [panic |-> TRUE, b |-> b] ELSE [panic |-> FALSE, b |-> b]
\* BitSet.Set: panics when index >= size, else marks the index
Set(b, index) ==
  IF index >= b.size
  THEN [panic |-> TRUE, b |-> b]
  ELSE [panic |-> FALSE, b |-> [b EXCEPT !.bits = @ \cup {index}]]

\* BitSet.Size
Size(b) == b.size

\* ----------------------------------------------------------- code resolver
\* getCode: the code record of an address at the block, or an error
getCode(addr) ==
  IF addr \in Unresolvable
  THEN [err |-> TRUE, addr |-> addr, len |-> 0]
  ELSE [err |-> FALSE, addr |-> addr, len |-> CodeLen[addr]]

\* --------------------------------------------------------------- results
\* newTraceResult: id stands for the identity of the allocated TraceResult
\* (the index of the first step of the frame it is allocated for, -1 for the
\* result of an EXT* step)
newTraceResult(code, id) ==
  [id |-> id, Addr |-> code.addr, Bits |-> NewBitSet(code.len), CodeOpsCount |-> 0]

ExtId == -1

\* ------------------------------------------------------------ trace steps
\* TraceStep: [pc, op, depth, stack]; the stack is listed bottom first, top last
StackTop(stack) == stack[Len(stack)]
StackSecond(stack) == stack[Len(stack) - 1]

\* Outcome of a handler: kind "ok", "err" (error returned) or "panic" (run-time
\* panic: index out of range, nil dereference), the result record as the
\* handler leaves it, and the results it has sent on the channel
Outcome(kind, res, out) == [kind |-> kind, res |-> res, out |-> out]

RECURSIVE PushLoop(_, _, _, _)
PushLoop(bits, pc, i, pushNumInt) ==
  IF i >= pushNumInt THEN [panic |-> FALSE, b |-> bits]
  ELSE LET r == Set(bits, pc + 1 + i)
       IN  IF r.panic THEN r ELSE PushLoop(r.b, pc, i + 1, pushNumInt)

\* handlePush with bits.Set(pc + i) in the loop: the last immediate byte is missed
handlePush_NoPlusOne(bits, step) ==
  LET pushNum == Atoi(Suffix(step.op, 4))
  IN  IF pushNum.err THEN [kind |-> "err", b |-> bits]
      ELSE LET r == PushLoop(bits, step.pc - 1, 0, pushNum.n)
           IN  [kind |-> IF r.panic THEN "panic" ELSE "ok", b |-> r.b]
\* handlePush: marks the pushNumInt immediate bytes after the opcode
handlePush(bits, step) ==
  LET pushNum == Atoi(Suffix(step.op, 4))
  IN  IF pushNum.err THEN [kind |-> "err", b |-> bits]
      ELSE LET r == PushLoop(bits, step.pc, 0, pushNum.n)
           IN  [kind |-> IF r.panic THEN "panic" ELSE "ok", b |-> r.b]

\* the EXT* case without extRes.CodeOpsCount++
handleExt_NoCount(step, res, failed) ==
  IF Len(step.stack) = 0 THEN Outcome("panic", res, <<>>)
  ELSE
    LET code == getCode(StackTop(step.stack))
    IN  IF code.err /\ ~failed THEN Outcome("err", res, <<>>)
        ELSE IF code.err THEN Outcome("panic", res, <<>>)
        ELSE IF code.len # 0
        THEN Outcome("ok", res, << newTraceResult(code, ExtId) >>)
        ELSE Outcome("ok", res, <<>>)
\* the EXT* case with res.CodeOpsCount++ in place of extRes.CodeOpsCount++
handleExt_CountsCaller(step, res, failed) ==
  IF Len(step.stack) = 0 THEN Outcome("panic", res, <<>>)
  ELSE
    LET code == getCode(StackTop(step.stack))
    IN  IF code.err /\ ~failed THEN Outcome("err", res, <<>>)
        ELSE IF code.err THEN Outcome("panic", res, <<>>)
        ELSE IF code.len # 0
        THEN Outcome("ok", [res EXCEPT !.CodeOpsCount = @ + 1],
                     << newTraceResult(code, ExtId) >>)
        ELSE Outcome("ok", res, <<>>)
\* the EXTCODESIZE / EXTCODEHASH / EXTCODECOPY case of handleOps
handleExt(step, res, failed) ==
  IF Len(step.stack) = 0 THEN Outcome("panic", res, <<>>)
  ELSE
    LET code == getCode(StackTop(step.stack))
    IN  IF code.err /\ ~failed THEN Outcome("err", res, <<>>)
        ELSE IF code.err THEN Outcome("panic", res, <<>>)  \* code is nil
        ELSE IF code.len # 0
        THEN LET extRes == newTraceResult(code, ExtId)
             IN  Outcome("ok", res, << [extRes EXCEPT !.CodeOpsCount = @ + 1] >>)
        ELSE Outcome("ok", res, <<>>)

\* the cases of the switch of handleOps
casePush(op) == OpLen(op) > 4 /\ Prefix(op, 2) = <<"P","U">>
\* the CODE* case taken on the first letter alone
caseCode_FirstLetter(op) == OpLen(op) > 4 /\ Prefix(op, 1) = <<"C">>
caseCode(op) == OpLen(op) > 4 /\ Prefix(op, 3) = <<"C","O","D">>
caseExt(op) == OpLen(op) = 11 /\ Prefix(op, 1) = <<"E">>

\* handleOps: marks the step's program counter in res, then acts on the opcode
handleOps(step, res, failed) ==
  LET op == step.op
      s0 == Set(res.Bits, step.pc)
      r0 == [res EXCEPT !.Bits = s0.b]
  IN  IF s0.panic THEN Outcome("panic", res, <<>>)
      ELSE IF op = OpPush0 THEN Outcome("ok", r0, <<>>)
      ELSE IF casePush(op)
      THEN LET p == handlePush(r0.Bits, step)
           IN  Outcome(p.kind, [r0 EXCEPT !.Bits = p.b], <<>>)
      ELSE IF caseCode(op)
      THEN Outcome("ok", [r0 EXCEPT !.CodeOpsCount = @ + 1], <<>>)
      ELSE IF caseExt(op)
      THEN handleExt(step, r0, failed)
      ELSE Outcome("ok", r0, <<>>)

\* prevStep.Op is CREATE or CREATE2, as analyzeSteps2 tests it
IsCreateOp(op) == OpLen(op) >= 6 /\ Prefix(op, 2) = <<"C","R">>

\* ------------------------------------------------------------------ state
VARIABLES
  family,   \* the family of step lists the transaction's trace is drawn from
  status,   \* "init", "walk", "done" (analyze returned nil), "error", "panic"
  failed,   \* trace.Failed
  to,       \* destination of the transaction
  nread,    \* number of steps of trace.Steps read so far
  cur,      \* <<steps[nread-1]>>, or <<>> before the first step is read
  closed,   \* TRUE once the list is known to end at nread
  calls,    \* activations of analyzeSteps2, innermost last
  ret,      \* index returned by the activation that returned last
  results,  \* what has been sent on the results channel, in order
  ref,      \* the frames really open at cur, outermost first (reference)
  mark,     \* what the walker did with the step it handled last (history)
  noCreate, \* FALSE once a constructor frame was entered
  noEmpty,  \* FALSE once a frame whose address resolves to no code was entered
  kRef,     \* number of call frames with code entered outside any skip frame
  mRef,     \* number of EXT* steps on targets with code, outside any skip frame
  counter,  \* *counter, the step index the activations of analyzeSteps share
  iters     \* number of passes of the loop of analyzeSteps made so far

\* Analyzer.Analyze: the tasks of a block and the aggregator goroutine
VARIABLES
  blockNum,   \* the block analysed
  traceErr,   \* TRUE when the retriever has no trace for the block
  trace,      \* the transactions of the block, each named by what its analysis does
  main,       \* position of Analyze: "init", "go", "wait", "drain", "returned"
  goIdx,      \* number of iterations of the loop over trace already done
  tasks,      \* per started closure: tx captured, state, results sent, runs of analyze
  inbox,      \* the result the aggregator has received and not yet merged
  aggregated, \* the aggregator's map from address to merged result
  errOnce,    \* the error the errgroup keeps: <<i>> once task i failed first
  chanClosed, \* close(results) has run
  aggDone,    \* close(done) has run
  returned    \* <<>>, or <<[err, res]>> once Analyze has returned

traceVars == <<nread, cur, closed, ref, noCreate, noEmpty, kRef, mRef>>
walkVars == <<family, status, failed, to, nread, cur, closed, calls, ret, results,
              ref, mark, noCreate, noEmpty, kRef, mRef, counter, iters>>
blockVars == <<blockNum, traceErr, trace, main, goIdx, tasks, inbox, aggregated,
               errOnce, chanClosed, aggDone, returned>>
\* Analyzer.getCode over the shared LRU cache
VARIABLES
  codeCache,  \* the LRU cache: entries [key, code], most recently used first
  gets,       \* per task: the getCode invocation it is in (id: its number), and where
  nGets,      \* number of getCode invocations started
  known       \* (history) pair -> bytes of a successful getCode, while not evicted

cacheVars == <<codeCache, gets, nGets, known>>

\* BitSet: two accessors under a sequence of operations
VARIABLES
  ver,      \* the BitSet of the build: "cached" keeps setCount, "computed" does not
  width,    \* chunkSize: the number of code bytes kept in one word of bits
  accs,     \* the accessors a and b: <<>> before NewBitSet has returned one
  marked,   \* (history) per accessor, the indices a Set or a Merge has marked
  lastOp,   \* the operation done last, its arguments and its outcome
  nOps      \* number of operations done on the accessors

bitVars == <<ver, width, accs, marked, lastOp, nOps>>

\* RpcClient.withRetry: one call
VARIABLES
  maxAttempts, \* retryConfig.MaxAttempts
  baseDelay,   \* retryConfig.BaseDelay, in nanoseconds
  maxDelay,    \* retryConfig.MaxDelay, in nanoseconds
  jitter,      \* retryConfig.Jitter
  attempt,     \* the loop variable
  invoked,     \* number of invocations of fn so far
  fnErrs,      \* what the invocations of fn returned, in order: "nil" or an error
  waited,      \* number of waits on time.After entered so far
  delay,       \* the delays of these waits, in order
  ctxDone,     \* the client's context has been cancelled
  ctxAtWait,   \* the context was already cancelled when the current select was entered
  rpos,        \* position in withRetry: "idle", "call", "wait", "returned"
  rret         \* what withRetry returned

retryVars == <<maxAttempts, baseDelay, maxDelay, jitter, attempt, invoked, fnErrs,
               waited, delay, ctxDone, ctxAtWait, rpos, rret>>

\* the way of an RPC error from withRetry up to the engine worker
VARIABLES
  site,      \* the caller of getCode: "entry" (analyze), "call" (analyzeSteps2), "ext" (handleOps)
  txFailed,  \* trace.Failed of the transaction being walked
  rpcOp,     \* the client method that runs withRetry: "Code" or "TransactionByHash"
  chain,     \* the function that returned last: "withRetry", "client", "getCode", "walk", "task", "Analyze", "worker"
  chainVal   \* what it returned: "none", "ok", "err", or "panic" for a crash of the process

chainVars == <<site, txFailed, rpcOp, chain, chainVal>>

\* Engine.Run: the block range and the workers
VARIABLES
  startBlock, \* config.StartBlock
  endBlock,   \* config.EndBlock
  nWorkers,   \* len(analyzers)
  ranges,     \* per worker: its start and end, <<>> before Run has assigned them
  wk,         \* per worker: block (the loop variable), st ("run", "done", "err")
              \* and log, the blocks passed to Analyze with the outcome of
              \* Analyze and of Write
  runDone     \* workers.Wait has returned

workerVars == <<startBlock, endBlock, nWorkers, ranges, wk, runDone>>
engineVars == <<chainVars, workerVars>>
vars == <<walkVars, blockVars, cacheVars, bitVars, retryVars, engineVars>>

\* no accessor is exercised on its own: the state of the BitSet variables
\* outside the family "bits"
BitsIdle ==
  /\ ver = "computed"
  /\ width = 32
  /\ accs = <<>>
  /\ marked = <<>>
  /\ lastOp = <<>>
  /\ nOps = 0

\* no RPC is retried: the state of the retry variables outside the family
\* "retry"
RetryIdle ==
  /\ maxAttempts = 1
  /\ baseDelay = 0
  /\ maxDelay = 0
  /\ jitter = FALSE
  /\ attempt = 0
  /\ invoked = 0
  /\ fnErrs = <<>>
  /\ waited = 0
  /\ delay = <<>>
  /\ ctxDone = FALSE
  /\ ctxAtWait = FALSE
  /\ rpos = "idle"
  /\ rret = <<>>

\* no error is on its way: the state of the chain variables outside the
\* family "cancel"
ChainIdle ==
  /\ site = "entry"
  /\ txFailed = FALSE
  /\ rpcOp = "Code"
  /\ chain = "withRetry"
  /\ chainVal = "none"

\* the engine is not run: the state of its variables outside the family
\* "engine"
WorkersIdle ==
  /\ startBlock = 0
  /\ endBlock = 0
  /\ nWorkers = 1
  /\ ranges = <<>>
  /\ wk = <<>>
  /\ runDone = FALSE

EngineIdle == ChainIdle /\ WorkersIdle

\* no getCode is traced: the state of the cache variables outside the family
\* "cache"
CacheIdle ==
  /\ codeCache = <<>>
  /\ gets = <<>>
  /\ nGets = 0
  /\ known = <<>>

\* no block is being analysed: the state of the block variables while a single
\* transaction is walked
BlockIdle ==
  /\ blockNum = 0
  /\ traceErr = FALSE
  /\ trace = <<>>
  /\ main = "idle"
  /\ goIdx = 0
  /\ tasks = <<>>
  /\ inbox = <<>>
  /\ aggregated = <<>>
  /\ errOnce = <<>>
  /\ chanClosed = FALSE
  /\ aggDone = FALSE
  /\ returned = <<>>

\* --------------------------------------------------- the trace (tracer side)
CallOps   == {"CALL", "CALLCODE", "DELEGATECALL", "STATICCALL"}
CreateOps == {"CREATE", "CREATE2"}
ExtOps    == {"EXTCODESIZE", "EXTCODEHASH", "EXTCODECOPY"}
SelfOps   == {"CODESIZE", "CODECOPY"}
PushOps   == {"PUSH1", "PUSH32"}

\* Three families of traces are drawn: "frames" has long lists over the opcodes
\* that open frames, "ops" has short lists over every opcode class, "errors"
\* has short lists whose calls and EXT* steps may name an address whose code
\* cannot be resolved. The families "counter" and "index" are the short lists
\* given to the two analyzeSteps walkers, and "truncated" has short lists over
\* the opcodes of "frames" that may be cut off at any step.
Families == {"frames", "ops", "errors", "counter", "index", "truncated"}
TraceOps ==
  IF family \in {"frames", "truncated"} THEN {"ADD", "CALL", "CREATE"}
  ELSE IF family = "errors" THEN {"ADD", "CALL", "EXTCODESIZE"}
  ELSE IF family \in {"counter", "index"}
  THEN {"ADD", "PUSH1", "CODESIZE", "EXTCODESIZE", "CALL", "CALLCODE",
        "DELEGATECALL", "STATICCALL", "CREATE"}
  ELSE {"ADD", "PUSH0", "PUSH1", "PUSH32", "CODESIZE", "CODECOPY",
        "EXTCODESIZE", "EXTCODEHASH", "EXTCODECOPY",
        "CALL", "CALLCODE", "DELEGATECALL", "STATICCALL", "CREATE", "CREATE2"}
MaxLen == IF family = "frames" THEN MaxSteps ELSE MaxOpSteps
DepthBound == IF family = "frames" THEN MaxDepth ELSE MaxOpDepth
PCBound == IF family = "frames" THEN MaxPC ELSE MaxOpPC
CallTargets == IF family = "errors" THEN {"B", "X"} ELSE {"B", "E"}
ExtTargets  == IF family = "errors" THEN {"B", "X"} ELSE {"B", "E"}

\* stack snapshots of a step: only the entries the walker reads are kept
StacksOf(op) ==
  IF op \in CallOps THEN {<<a, GasWord>> : a \in CallTargets}
  ELSE IF op \in ExtOps THEN {<<a>> : a \in ExtTargets}
  ELSE {<<>>}

\* the frame executing at cur
RefTop == ref[Len(ref)]

\* cur is the implicit STOP that ends a frame: its program counter is the
\* length of the code the frame executes
AtImplicitStop == nread > 0 /\ cur[1].pc = RefTop.len

\* depths the step after cur can have: a frame is entered only by a call or a
\* create, is left one level at a time, and is over after its implicit STOP
NextDepths ==
  IF nread = 0 THEN {1}
  ELSE LET p == cur[1]
       IN  (IF AtImplicitStop THEN {} ELSE {p.depth})
           \cup (IF p.op \in CallOps \cup CreateOps /\ p.depth < DepthBound
                 THEN {p.depth + 1} ELSE {})
           \cup (IF p.depth > 1 THEN {p.depth - 1} ELSE {})

\* the frame a step at a greater depth than cur opens; len is the length of
\* the code it executes, -1 when that code is not the one the address holds at
\* the block (a constructor, a contract gone by the end of the block)
RefFrame ==
  IF nread = 0
  THEN [kind |-> "entry", skip |-> FALSE, id |-> 0, addr |-> to, len |-> CodeLen[to]]
  ELSE LET p == cur[1]
       IN  IF p.op \in CreateOps
           THEN [kind |-> "create", skip |-> TRUE, id |-> nread,
                 addr |-> "constructor", len |-> 0 - 1]
           ELSE LET code == getCode(StackSecond(p.stack))
                    nocode == code.err \/ code.len = 0
                IN  [kind |-> IF nocode THEN "empty" ELSE "call",
                     skip |-> RefTop.skip \/ nocode,
                     id |-> nread, addr |-> code.addr,
                     len |-> IF nocode THEN 0 - 1 ELSE code.len]

\* the frame a step at depth d executes in
FrameAt(d) == IF nread = 0 \/ d > cur[1].depth THEN RefFrame ELSE ref[d]

\* a frame starts at program counter 0 and stays within its code; of a long
\* code the first bytes and the end are visited
NextPCs(d) ==
  IF nread = 0 \/ d > cur[1].depth THEN {0}
  ELSE IF FrameAt(d).len >= 0
  THEN {pc \in 0..FrameAt(d).len : pc <= PCBound \/ pc = FrameAt(d).len}
  ELSE 0..PCBound

OpsAt(d, pc) == IF pc = FrameAt(d).len THEN {"STOP"} ELSE TraceOps

NextSteps ==
  UNION { UNION { UNION { { [pc |-> pc, op |-> op, depth |-> d, stack |-> st]
                            : st \in StacksOf(op) }
                          : op \in OpsAt(d, pc) }
                  : pc \in NextPCs(d) }
          : d \in NextDepths }

\* the list can end where the outermost frame is executing; a list of the
\* family "truncated" can end anywhere
CanEnd == nread = 0 \/ cur[1].depth = 1 \/ family = "truncated"

\* steps[i] with its range check: <<>> when i is past the end of the list
Read(i) ==
  IF i < nread THEN {cur}
  ELSE IF closed THEN {<<>>}
  ELSE (IF CanEnd THEN {<<>>} ELSE {})
       \cup (IF nread < MaxLen THEN {<<s>> : s \in NextSteps} ELSE {})

RefNext(s) ==
  IF nread = 0 \/ s.depth > cur[1].depth THEN Append(ref, RefFrame)
  ELSE IF s.depth < cur[1].depth THEN SubSeq(ref, 1, Len(ref) - 1)
  ELSE ref

Entering(s) == nread > 0 /\ s.depth > cur[1].depth

\* the effect on the trace of reading steps[i] and finding ev there
Reveal(i, ev) ==
  IF i < nread THEN UNCHANGED traceVars
  ELSE IF ev = <<>>
  THEN closed' = TRUE /\ UNCHANGED <<nread, cur, ref, noCreate, noEmpty, kRef, mRef>>
  ELSE LET s == ev[1]
           fr == RefNext(s)[s.depth]
       IN  /\ nread' = nread + 1
           /\ cur' = ev
           /\ ref' = RefNext(s)
           /\ noCreate' = (noCreate /\ fr.kind # "create")
           /\ noEmpty' = (noEmpty /\ fr.kind # "empty")
           /\ kRef' = kRef + (IF Entering(s) /\ ~fr.skip THEN 1 ELSE 0)
           /\ mRef' = mRef + (IF s.op \in ExtOps /\ ~fr.skip
                                 /\ getCode(StackTop(s.stack)).len # 0
                              THEN 1 ELSE 0)
           /\ UNCHANGED closed

\* ------------------------------------------------------------ the walker
\* An activation of analyzeSteps2: its parameters and locals. at is "loop" at
\* the head of the loop and "call" while the nested call it made is running;
\* step is the local of the iteration that made the call.
Activation(index, res, isCreate, prevStep) ==
  [index |-> index, res |-> res, isCreate |-> isCreate, prevStep |-> prevStep,
   step |-> <<>>, at |-> "loop"]

Top == calls[Len(calls)]
Pop == SubSeq(calls, 1, Len(calls) - 1)
ReplaceTop(f) == [calls EXCEPT ![Len(calls)] = f]

\* mark (history): the index of the step handled last, what was done with it
\* ("handled": given to handleOps, "skipped": passed over, "stop": taken as the
\* implicit STOP), the identity of the result of the activation that did it,
\* and the step before it when it was read in the same iteration
NoMark == [idx |-> 0 - 1, how |-> "none", id |-> 0 - 1, prev |-> <<>>]
Mark(idx, how, id) ==
  [idx |-> idx, how |-> how, id |-> id, prev |-> IF idx = nread THEN cur ELSE <<>>]

\* a panic or a returned error ends the walk of the transaction
Abort(kind) ==
  /\ status' = (IF kind = "panic" THEN "panic" ELSE "error")
  /\ UNCHANGED <<calls, ret, results, mark>>

\* the iteration ends and the loop goes on with activation f
Continue(f, out, m) ==
  /\ calls' = ReplaceTop(f)
  /\ results' = results \o out
  /\ mark' = m
  /\ UNCHANGED <<status, ret>>

\* results <- *res; return index, nil   (analyzeSteps2, after the loop)
Return(f, m) ==
  /\ results' = Append(results, f.res)
  /\ calls' = Pop
  /\ ret' = f.index
  /\ mark' = m
  /\ UNCHANGED status

\* the end of an iteration: the implicit STOP test, handleOps, prevStep, index++
TailStep(f, step) ==
  LET next == [f EXCEPT !.prevStep = <<step>>, !.index = @ + 1,
                        !.step = <<>>, !.at = "loop"]
  IN  IF ~f.isCreate
      THEN IF step.pc = Size(f.res.Bits)
           THEN Return(next, Mark(f.index, "stop", f.res.id))
           ELSE LET h == handleOps(step, f.res, failed)
                IN  IF h.kind = "ok"
                    THEN Continue([next EXCEPT !.res = h.res], h.out,
                                  Mark(f.index, "handled", f.res.id))
                    ELSE Abort(h.kind)
      ELSE Continue(next, <<>>, Mark(f.index, "skipped", f.res.id))

\* the return to the caller's depth goes unnoticed: no break
DepthDown_NoBreak(f, step) == TailStep(f, step)
\* prevStep.Depth > step.Depth
DepthDown(f, step) ==
  IF f.isCreate
  THEN LET g == [f EXCEPT !.isCreate = FALSE]
           next == [g EXCEPT !.prevStep = <<step>>, !.index = @ + 1]
       IN  IF step.pc = Size(f.res.Bits)
           THEN Return(next, Mark(f.index, "stop", f.res.id))
           ELSE LET h == handleOps(step, f.res, failed)
                IN  IF h.kind = "ok"
                    THEN Continue([next EXCEPT !.res = h.res], h.out,
                                  Mark(f.index, "handled", f.res.id))
                    ELSE Abort(h.kind)
  ELSE Return(f, mark)

\* prevStep.Depth < step.Depth
DepthUp(f, step) ==
  LET prevStep == f.prevStep[1]
  IN  IF IsCreateOp(prevStep.op)
      THEN Continue([f EXCEPT !.isCreate = TRUE, !.prevStep = <<step>>,
                              !.index = @ + 1],
                    <<>>, Mark(f.index, "skipped", f.res.id))
      ELSE IF Len(prevStep.stack) < 2 THEN Abort("panic")
      ELSE
        LET code == getCode(StackSecond(prevStep.stack))
        IN  IF code.err /\ ~failed THEN Abort("err")
            ELSE IF code.err THEN Abort("panic")      \* code is nil
            ELSE IF code.len # 0
            THEN LET res == newTraceResult(code, f.index)
                     h == handleOps(step, res, failed)
                 IN  IF h.kind = "ok"
                     THEN /\ calls' = Append(
                                ReplaceTop([f EXCEPT !.step = <<step>>, !.at = "call"]),
                                Activation(f.index + 1, h.res, f.isCreate, <<step>>))
                          /\ results' = results \o h.out
                          /\ mark' = Mark(f.index, "handled", res.id)
                          /\ UNCHANGED <<status, ret>>
                     ELSE Abort(h.kind)
            ELSE TailStep(f, step)

\* the tests on the depths of prevStep and step
Shallower(prevStep, step) == prevStep.depth > step.depth
\* a call or create opcode is taken to open a frame whatever the next depth
Deeper_ByOpcode(prevStep, step) ==
  ~Shallower(prevStep, step) /\ prevStep.op \in CallOps \cup CreateOps
Deeper(prevStep, step) == prevStep.depth < step.depth

\* one iteration of the loop of analyzeSteps2, or its end
Loop ==
  /\ status = "walk"
  /\ UNCHANGED <<blockVars, cacheVars, bitVars, retryVars, engineVars>>
  /\ UNCHANGED <<counter, iters>>
  /\ calls # <<>>
  /\ Top.at = "loop"
  /\ \E ev \in Read(Top.index) :
       /\ Reveal(Top.index, ev)
       /\ UNCHANGED <<family, failed, to>>
       /\ IF ev = <<>> THEN Return(Top, mark)
          ELSE LET f == Top
                   step == ev[1]
               IN  IF f.prevStep # <<>> /\ Shallower(f.prevStep[1], step)
                   THEN DepthDown(f, step)
                   ELSE IF f.prevStep # <<>> /\ Deeper(f.prevStep[1], step)
                   THEN DepthUp(f, step)
                   ELSE TailStep(f, step)

\* the nested analyzeSteps2 has returned newIndex: the calling iteration goes on
Resume ==
  /\ status = "walk"
  /\ UNCHANGED <<blockVars, cacheVars, bitVars, retryVars, engineVars>>
  /\ UNCHANGED <<counter, iters>>
  /\ calls # <<>>
  /\ Top.at = "call"
  /\ UNCHANGED <<family, failed, to>>
  /\ LET f == Top
         newIndex == ret
     IN  IF newIndex # 0
         THEN \E ev \in Read(newIndex) :
                /\ Reveal(newIndex, ev)
                /\ IF ev = <<>> THEN Abort("panic")   \* steps[index] out of range
                   ELSE TailStep([f EXCEPT !.index = newIndex], ev[1])
         ELSE /\ UNCHANGED traceVars
              /\ TailStep(f, f.step[1])

\* analyze: resolves the destination's code and starts the walk at index 0
Analyze ==
  /\ status = "init"
  /\ UNCHANGED <<blockVars, cacheVars, bitVars, retryVars, engineVars>>
  /\ UNCHANGED <<counter, iters>>
  /\ UNCHANGED <<family, failed, to, results, mark>>
  /\ LET code == getCode(to)
     IN  IF code.err
         THEN status' = "error" /\ UNCHANGED <<calls, ret>> /\ UNCHANGED traceVars
         ELSE IF code.len = 0
         THEN status' = "done" /\ UNCHANGED <<calls, ret>> /\ UNCHANGED traceVars
         ELSE \E ev \in Read(0) :
                /\ Reveal(0, ev)
                /\ status' = "walk"
                /\ ret' = 0
                /\ calls' = IF ev = <<>> THEN <<>>      \* len(steps) == 0
                            ELSE << Activation(0, newTraceResult(code, 0), FALSE, <<>>) >>

\* analyze without the comparison of lastIndex with len(steps)
Finish_NoCheck ==
  /\ status = "walk"
  /\ UNCHANGED <<blockVars, cacheVars, bitVars, retryVars, engineVars>>
  /\ UNCHANGED <<counter, iters>>
  /\ calls = <<>>
  /\ UNCHANGED <<family, failed, to, calls, ret, results, mark>>
  /\ \E ev \in Read(ret) :
       /\ Reveal(ret, ev)
       /\ status' = "done"

\* analyze: the walk has returned lastIndex
Finish ==
  /\ status = "walk"
  /\ UNCHANGED <<blockVars, cacheVars, bitVars, retryVars, engineVars>>
  /\ UNCHANGED <<counter, iters>>
  /\ calls = <<>>
  /\ UNCHANGED <<family, failed, to, calls, ret, results, mark>>
  /\ \E ev \in Read(ret) :
       /\ Reveal(ret, ev)
       /\ status' = (IF ev = <<>> THEN "done" ELSE "error")

\* trace.Failed is read only where a code resolution fails during the walk,
\* which no step of the family "ops" causes: that family fixes it
FailedFlags(fam) == IF fam \in {"ops", "counter", "index"} THEN {FALSE} ELSE BOOLEAN

Start(fam) ==
  /\ family = fam
  /\ BlockIdle
  /\ CacheIdle
  /\ BitsIdle
  /\ RetryIdle
  /\ EngineIdle
  /\ status = "init"
  /\ failed \in FailedFlags(fam)
  /\ to \in Destinations
  /\ nread = 0
  /\ cur = <<>>
  /\ closed = FALSE
  /\ calls = <<>>
  /\ ret = 0
  /\ results = <<>>
  /\ ref = <<>>
  /\ mark = NoMark
  /\ noCreate = TRUE
  /\ noEmpty = TRUE
  /\ kRef = 0
  /\ mRef = 0
  /\ counter = 0
  /\ iters = 0

Init == Start("frames")
InitOps == Start("ops")
InitErr == Start("errors")

Next == Analyze \/ Loop \/ Resume \/ Finish

\* the walk over the traces of the family "frames"
Spec == Init /\ [][Next]_vars
\* the walk over the traces of the family "ops"
SpecOps == InitOps /\ [][Next]_vars
SpecErr == InitErr /\ [][Next]_vars
\* the walk over step lists that may end inside a nested frame
InitTrunc == Start("truncated")
SpecTrunc == InitTrunc /\ [][Next]_vars

\* ============================================================ properties
\* The step handled by a transition is the one mark' names; the result record
\* it was handled in is looked up by identity among the activations.
ResIds(cs) == {cs[i].res.id : i \in 1..Len(cs)}
ResOf(cs, id) == cs[CHOOSE i \in 1..Len(cs) : cs[i].res.id = id].res
Acted == mark' # mark
Handled == Acted /\ mark'.how = "handled"
\* the record the step was handled in, as it was before and as it is after
ResAfter == ResOf(calls', mark'.id)
ResBefore ==
  IF mark'.id \in ResIds(calls) THEN ResOf(calls, mark'.id)
  ELSE [ResAfter EXCEPT !.Bits = [size |-> @.size, bits |-> {}], !.CodeOpsCount = 0]
\* the records of the other activations are left as they were
OthersKept ==
  \A i \in 1..Len(calls) :
    calls[i].res.id # mark'.id => i <= Len(calls') /\ calls'[i].res = calls[i].res
InFrames(kind) == \E i \in 1..Len(ref) : ref[i].kind = kind
FrameResults(rs) == {i \in 1..Len(rs) : rs[i].id # ExtId}
Plain == noCreate /\ noEmpty

\* ------------------------------------------------------------------- C1
C1_Attributed ==
  (Plain' /\ Acted) =>
    /\ mark'.idx = nread' - 1
    /\ mark'.how \in {"handled", "stop"}
    /\ mark'.id = RefTop'.id
    /\ mark'.how = "handled" =>
         /\ mark'.id \in ResIds(calls')
         /\ ResAfter.Addr = RefTop'.addr
         /\ cur'[1].pc \in ResAfter.Bits.bits
         /\ OthersKept
    /\ mark'.how = "stop" =>
         /\ cur'[1].pc = RefTop'.len
         /\ results' = Append(results, Top.res)
         /\ Top.res.id = mark'.id
C1_NoneLeftOut ==
  /\ (Plain' /\ nread' > nread /\ nread > 0) => mark.idx = nread - 1
  /\ (Plain' /\ status' = "done" /\ nread' > 0) => mark'.idx = nread' - 1
\* C1: in a trace that enters no constructor frame and no frame without code,
\* every step is accounted, when it is handled, in the result record of the
\* frame that executes it: the record was created for that frame and holds the
\* frame's address, the step's program counter is marked in it, no other
\* frame's record changes, and no step is passed over; so the steps of a
\* caller after a nested frame returned go to the caller's record again.
C1_FrameAttribution == [][C1_Attributed /\ C1_NoneLeftOut]_vars
\* a caller's step has been handled in the caller's record after the frame it
\* called has returned and emitted its result
C1_Witness ==
  /\ Plain /\ status = "walk"
  /\ mark.how = "handled" /\ mark.idx = nread - 1
  /\ Len(calls) = 1 /\ mark.id = Top.res.id /\ cur[1].pc \in Top.res.Bits.bits
  /\ \E i \in 1..Len(results) : results[i].id > 0 /\ results[i].id < mark.idx

\* ------------------------------------------------------------------- C2
\* the step handled follows a call step; Callee is the code the call names
AfterCall == Acted /\ mark'.prev # <<>> /\ mark'.prev[1].op \in CallOps
Callee == getCode(StackSecond(mark'.prev[1].stack))
C2_OpenedOnlyByDepth ==
  (Len(calls') > Len(calls) /\ calls # <<>>) =>
    /\ AfterCall
    /\ cur'[1].depth = mark'.prev[1].depth + 1
    /\ Callee.len # 0
    /\ calls'[Len(calls')].res.Addr = Callee.addr
C2_NotEntered ==
  (Plain' /\ AfterCall /\ cur'[1].depth = mark'.prev[1].depth) =>
    /\ Len(calls') <= Len(calls)
    /\ mark'.id = mark.id
    /\ \A i \in FrameResults(results') : i <= Len(results) \/ results'[i].id = mark.id
C2_Entered ==
  (Plain' /\ AfterCall /\ cur'[1].depth = mark'.prev[1].depth + 1 /\ Callee.len # 0) =>
    /\ calls' = Append([calls EXCEPT ![Len(calls)].step = cur', ![Len(calls)].at = "call"],
                       calls'[Len(calls')])
    /\ calls'[Len(calls')].res.id = nread
    /\ calls'[Len(calls')].res.Addr = Callee.addr
C2_Count ==
  (Plain' /\ status' = "done" /\ nread' > 0) =>
    /\ Cardinality(FrameResults(results')) = 1 + kRef'
    /\ \A i, j \in FrameResults(results') : results'[i].id = results'[j].id => i = j
NothingAccounted ==
  /\ results' = results
  /\ Len(calls') = Len(calls)
  /\ \A i \in 1..Len(calls) : calls'[i].res = calls[i].res
C3_Skipped ==
  (noCreate' /\ InFrames("empty")' /\ Acted) =>
    mark'.how = "skipped" /\ NothingAccounted
C3_CallerGoesOn ==
  (noCreate' /\ ~noEmpty' /\ ~InFrames("empty")' /\ Acted) =>
    /\ mark'.how \in {"handled", "stop"}
    /\ mark'.id = RefTop'.id
    /\ mark'.how = "handled" => cur'[1].pc \in ResAfter.Bits.bits
C3_IndexMatches ==
  (noCreate' /\ ~noEmpty' /\ status = "walk" /\ calls = <<>>) =>
    ret = nread' /\ status' = "done"
\* C3: when the step after a call is one level deeper and the callee resolves
\* to no code, the steps of that frame and of the frames below it mark no bit,
\* count nothing and emit nothing; once the depth is back at the caller's the
\* caller's steps are accounted in the caller's record, which is not ended
\* early, and the index returned at the end equals the number of steps.
C3_EmptyCodeSkipFrame == [][C3_Skipped /\ C3_CallerGoesOn /\ C3_IndexMatches]_vars

\* ------------------------------------------------------------------- C4
C4_Skipped ==
  (noEmpty' /\ InFrames("create")' /\ Acted) =>
    mark'.how = "skipped" /\ NothingAccounted
C4_ParentResumes ==
  (noEmpty' /\ ~noCreate' /\ ~InFrames("create")' /\ Acted) =>
    /\ mark'.how \in {"handled", "stop"}
    /\ mark'.id = RefTop'.id
    /\ mark'.how = "handled" => cur'[1].pc \in ResAfter.Bits.bits
\* C4: the frame entered after CREATE or CREATE2 is walked as a skip frame: no
\* step of the constructor or of a frame nested in it marks a bit, counts or
\* emits a result, and the parent's accounting resumes with the first step
\* back at the parent's depth.
C4_CreateSkipFrame == [][C4_Skipped /\ C4_ParentResumes]_vars

\* ------------------------------------------------------------------- C5
\* the number n of immediate bytes of PUSHn
PushWidth == [PUSH1 |-> 1, PUSH32 |-> 32]
C5_Marks ==
  (Handled /\ cur'[1].op \in PushOps) =>
    LET pc == cur'[1].pc
        n == PushWidth[cur'[1].op]
    IN  /\ mark'.idx = nread' - 1
        /\ ResAfter.Bits.bits = ResBefore.Bits.bits \cup (pc .. pc + n)
        /\ ResAfter.CodeOpsCount = ResBefore.CodeOpsCount
        /\ ResAfter.Addr = ResBefore.Addr
        /\ OthersKept
        /\ results' = results
C5_InItsFrame ==
  (Plain' /\ Acted /\ cur'[1].op \in PushOps) => Handled /\ mark'.id = RefTop'.id
\* C5: a PUSHn step at program counter pc that is handled in a frame's record
\* marks there the bytes pc, pc+1, ..., pc+n and no other byte, changes no
\* counter and no other record, and emits nothing; in a trace without
\* constructor or codeless frames the record is the one of the frame that
\* executes the step.
C5_PushMarking == [][C5_Marks /\ C5_InItsFrame]_vars
\* a PUSH32 step has been handled and its 33 bytes are marked
C5_Witness ==
  /\ Plain /\ status = "walk" /\ mark.how = "handled" /\ mark.idx = nread - 1
  /\ cur[1].op = "PUSH32"
  /\ mark.id \in ResIds(calls)
  /\ ResOf(calls, mark.id).Bits.bits = cur[1].pc .. cur[1].pc + 32

\* ------------------------------------------------------------------- C6
ExtTarget == StackTop(cur'[1].stack)
C6_Emits ==
  (Handled /\ cur'[1].op \in ExtOps) =>
    results' =
      IF CodeLen[ExtTarget] # 0
      THEN Append(results,
                  [id |-> ExtId, Addr |-> ExtTarget,
                   Bits |-> [size |-> CodeLen[ExtTarget], bits |-> {}],
                   CodeOpsCount |-> 1])
      ELSE results
\* C6: an EXTCODESIZE, EXTCODEHASH or EXTCODECOPY step that is handled emits
\* exactly one separate result for the address on top of its stack when that
\* address has code, with no bit set and a count of 1, and emits nothing when
\* the address has no code.
C6_ExtTargetResult == [][C6_Emits]_vars
\* an EXT* step on an address with code has been handled and the result for
\* the target is the last one emitted
C6_Witness ==
  /\ status = "walk" /\ mark.how = "handled" /\ mark.idx = nread - 1
  /\ cur[1].op \in ExtOps /\ CodeLen[StackTop(cur[1].stack)] # 0
  /\ results # <<>>
  /\ results[Len(results)].id = ExtId
  /\ results[Len(results)].Addr = StackTop(cur[1].stack)
  /\ results[Len(results)].CodeOpsCount = 1

\* ------------------------------------------------------------------- C7
C7_Untouched ==
  (Handled /\ cur'[1].op \in ExtOps) => ResAfter = ResBefore
\* C7 as stated: an EXT* step leaves the current frame's record as it was, the
\* same bits set and the same counters.
C7_ExtLeavesFrameUntouched == [][C7_Untouched]_vars
C7_OwnPc ==
  (Handled /\ cur'[1].op \in ExtOps) =>
    /\ ResAfter.Bits.bits = ResBefore.Bits.bits \cup {cur'[1].pc}
    /\ ResAfter.Bits.size = ResBefore.Bits.size
    /\ ResAfter.CodeOpsCount = ResBefore.CodeOpsCount
    /\ ResAfter.Addr = ResBefore.Addr
    /\ OthersKept
\* C7 amended: an EXT* step marks its own program counter in the current
\* frame's record and changes nothing else there: no other bit is marked and
\* the counters are unchanged; no other frame's record changes.
C7_ExtMarksOnlyOwnPc == [][C7_OwnPc]_vars
\* an EXT* step on an address with code has been handled in the entry frame:
\* its program counter is marked there and the entry frame's counter is zero
C7_Witness ==
  /\ Plain /\ status = "walk" /\ mark.how = "handled" /\ mark.idx = nread - 1
  /\ cur[1].op \in ExtOps /\ CodeLen[StackTop(cur[1].stack)] # 0
  /\ Len(calls) = 1 /\ mark.id = Top.res.id
  /\ cur[1].pc \in Top.res.Bits.bits
  /\ Top.res.CodeOpsCount = 0

\* ------------------------------------------------------------------- C8
C8_Counts ==
  Handled =>
    /\ ResAfter.CodeOpsCount =
         ResBefore.CodeOpsCount + (IF cur'[1].op \in SelfOps THEN 1 ELSE 0)
    /\ cur'[1].op \in SelfOps =>
         /\ results' = results
         /\ ResAfter.Bits.bits = ResBefore.Bits.bits \cup {cur'[1].pc}
         /\ OthersKept
C9_Push0Unmarked ==
  /\ (Handled /\ cur'[1].op # OpPush0) => cur'[1].pc \in ResAfter.Bits.bits
  /\ (Handled /\ cur'[1].op = OpPush0) => ResAfter.Bits = ResBefore.Bits
\* C9 as stated: every handled step's program counter is marked unless the
\* opcode is PUSH0; a PUSH0 step marks neither its own program counter nor any
\* following byte.
C9_Push0MarksNothing == [][C9_Push0Unmarked]_vars
C9_Push0OwnPc ==
  /\ Handled => cur'[1].pc \in ResAfter.Bits.bits
  /\ (Handled /\ cur'[1].op = OpPush0) =>
       /\ ResAfter.Bits.bits = ResBefore.Bits.bits \cup {cur'[1].pc}
       /\ ResAfter.CodeOpsCount = ResBefore.CodeOpsCount
       /\ results' = results
\* C9 amended: every handled step's program counter is marked, PUSH0
\* included; a PUSH0 step marks its own program counter and no following byte.
C9_Push0MarksOnlyOwnPc == [][C9_Push0OwnPc]_vars
\* a PUSH0 step has been handled: its program counter is marked, the byte
\* after it is not
C9_Witness ==
  /\ Plain /\ status = "walk" /\ mark.how = "handled" /\ mark.idx = nread - 1
  /\ cur[1].op = OpPush0
  /\ mark.id \in ResIds(calls)
  /\ cur[1].pc \in ResOf(calls, mark.id).Bits.bits
  /\ cur[1].pc + 1 \notin ResOf(calls, mark.id).Bits.bits

\* ------------------------------------------------------------------ C10
\* the frames that are over at the transition: the one left when the depth
\* falls, and the one executing when it meets its implicit STOP or the steps
\* are exhausted
Exited ==
  (IF Len(ref') < Len(ref) THEN {ref[Len(ref)]} ELSE {})
  \cup (IF ref' # <<>> /\ (closed' \/ cur'[1].pc = ref'[Len(ref')].len)
        THEN {ref'[Len(ref')]} ELSE {})
C10_AtExit ==
  \A i \in FrameResults(results') :
    i > Len(results) =>
      /\ \E x \in Exited : results'[i].id = x.id /\ ~x.skip
      /\ \A j \in FrameResults(results) : results[j].id # results'[i].id
C10_Count ==
  (status' = "done" /\ nread' > 0) => Len(results') = 1 + kRef' + mRef'
\* C10: a frame result is emitted only for a frame that is not a skip frame,
\* at the transition that ends the frame (the depth falls, the implicit STOP
\* is met, or the steps are exhausted) and once per frame; a successful walk
\* of a trace with k call frames entered outside skip frames and m EXT* steps
\* on addresses with code outside skip frames has emitted 1 + k + m results.
C10_OneResultPerFrame == [][C10_AtExit /\ C10_Count]_vars

\* ------------------------------------------------------------------ C11
\* the transition reads a step whose handling resolves the code of an address
\* that cannot be resolved: the first step of a frame entered by a call to it,
\* or an EXT* step naming it
ResolutionFails ==
  /\ status = "walk" /\ calls # <<>> /\ Top.at = "loop" /\ ~Top.isCreate
  /\ nread > 0 /\ nread' = nread + 1
  /\ \/ /\ cur'[1].depth = cur[1].depth + 1
        /\ cur[1].op \in CallOps
        /\ StackSecond(cur[1].stack) \in Unresolvable
     \/ /\ cur'[1].depth = cur[1].depth
        /\ cur'[1].op \in ExtOps
        /\ StackTop(cur'[1].stack) \in Unresolvable
        /\ cur'[1].pc < Size(Top.res.Bits)
C11_Propagated == (ResolutionFails /\ ~failed) => status' = "error"
C11_Tolerated ==
  (ResolutionFails /\ failed) =>
    /\ status' = "walk"
    /\ results' = results
    /\ Len(calls') = Len(calls)
\* C11: when the code of a call target or of an EXT* target cannot be
\* resolved, the walk of a trace marked failed goes on as if the target had no
\* code (no error, no crash, nothing opened or emitted for it), and the walk
\* of a trace not marked failed returns the error.
C11_ResolutionFailure == [][C11_Propagated /\ C11_Tolerated]_vars

\* ------------------------------------------------------------------ C12
\* the walk has returned its index to analyze
WalkReturned == status = "walk" /\ calls = <<>>
\* the index returned is the number of steps of the list
IndexIsLength == closed' /\ ret = nread'
C12_AtReturn ==
  WalkReturned =>
    /\ status' \in {"done", "error"}
    /\ status' = "done" <=> IndexIsLength
    /\ results' = results
\* C12: the analysis of a transaction succeeds after a walk only if the index
\* the walk returned is the number of steps of the trace; with any other index
\* the analysis returns an error.
C12_StepCount == [][C12_AtReturn]_vars
\* a walk that returned an index short of the steps read, refused by analyze
C12_Witness == status = "error" /\ calls = <<>> /\ 0 < ret /\ ret < nread

\* ------------------------------------------------------------------ C13
\* the transition reads, in the frame being accounted, a PUSHn step whose
\* immediate bytes run to or past the end of the frame's code
Overrun ==
  /\ status = "walk" /\ calls # <<>> /\ Top.at = "loop" /\ ~Top.isCreate
  /\ nread > 0 /\ nread' = nread + 1
  /\ cur'[1].depth = cur[1].depth
  /\ cur'[1].op \in PushOps
  /\ cur'[1].pc < Size(Top.res.Bits)
  /\ cur'[1].pc + PushWidth[cur'[1].op] >= Size(Top.res.Bits)
C13_Surfaced ==
  Overrun =>
    /\ status' = "error"
    /\ results' = results
\* C13: a PUSHn step whose immediate bytes fall at or beyond the size of the
\* frame's code makes the analysis of the transaction return an error; the
\* access is neither recorded nor left as an abort outside the error path.
C13_OutOfRangeIsError == [][C13_Surfaced]_vars

\* ===================================================== the block (Analyze)
\* Analyzer.Analyze starts one errgroup task per transaction of the block; each
\* task runs analyze, which sends zero or more TraceResults on the unbuffered
\* channel results and returns nil or an error; one aggregator goroutine
\* receives the results and merges them per address.
\*
\* BitSet with its counter of set bits: Set adds one to setCount for every bit
\* it newly sets, so the accessor a walk has built has setCount = |bits|
Accessed(size, S) == [size |-> size, bits |-> S, setCount |-> Cardinality(S)]

\* BitSet.Count: the cached setCount when it is not zero, else the bits counted
Count(b) == IF b.setCount # 0 THEN b.setCount ELSE Cardinality(b.bits)

\* BitSet.ChunkCount: the number of 32-bit words with a bit set
ChunkCount(b) == Cardinality({i \div 32 : i \in b.bits})

\* BitSet.Merge keeping only the receiver's bits
Merge_KeepOwn(b, other) == b
\* BitSet.Merge: ORs the words of other into b; setCount is not touched.
\* (The sizes are equal: both are the code size of one address at one block.)
Merge(b, other) == [b EXCEPT !.bits = @ \cup other.bits]

\* a TraceResult as analyze sends it
Emit(addr, S, n) ==
  [Addr |-> addr, Bits |-> Accessed(CodeLen[addr], S), CodeOpsCount |-> n]

\* What analyze does on a transaction, as seen by Analyze: the results it
\* sends, in order, and whether it then returns an error.
\*   one : A runs one step
\*   call: A calls B; B's frame result is sent when its frame is left
\*   ext : A runs an EXT* step on B and a step in its second 32-byte chunk
\*   fail: A calls B, B's result is sent, then the walk returns an error
analyze ==
  [one  |-> [out |-> << Emit("A", {0}, 0) >>, err |-> FALSE],
   call |-> [out |-> << Emit("B", {0}, 0), Emit("A", {0, 1}, 1) >>, err |-> FALSE],
   ext  |-> [out |-> << Emit("B", {}, 1), Emit("A", {32}, 0) >>, err |-> FALSE],
   fail |-> [out |-> << Emit("B", {1}, 0) >>, err |-> TRUE]]
TxKinds == DOMAIN analyze
Blocks == {1}

\* the aggregator's loop body on one received result
MergeResult(agg, result) ==
  IF result.Addr \in DOMAIN agg
  THEN [agg EXCEPT ![result.Addr] =
          [Bits |-> Merge(@.Bits, result.Bits),
           CodeOpsCount |-> @.CodeOpsCount + result.CodeOpsCount]]
  ELSE (result.Addr :> [Bits |-> result.Bits, CodeOpsCount |-> result.CodeOpsCount])
       @@ agg

\* BlockResult{}: no block number, no map
EmptyBlockResult == [BlockNum |-> 0, Results |-> <<>>]

Running == {i \in 1..Len(tasks) : tasks[i].st = "run"}

\* no transaction is being walked: the state of the walker variables while a
\* block is analysed
WalkIdle ==
  /\ family = "block" /\ status = "idle" /\ failed = FALSE /\ to = "A"
  /\ nread = 0 /\ cur = <<>> /\ closed = FALSE /\ calls = <<>> /\ ret = 0
  /\ results = <<>> /\ ref = <<>> /\ mark = NoMark
  /\ noCreate = TRUE /\ noEmpty = TRUE /\ kRef = 0 /\ mRef = 0
  /\ counter = 0 /\ iters = 0

InitBlock ==
  /\ WalkIdle
  /\ CacheIdle
  /\ BitsIdle
  /\ RetryIdle
  /\ EngineIdle
  /\ blockNum \in Blocks
  /\ traceErr \in BOOLEAN
  /\ trace \in UNION {[1..n -> TxKinds] : n \in 0..MaxTxs}
  /\ traceErr => trace = <<>>
  /\ main = "init"
  /\ goIdx = 0
  /\ tasks = <<>>
  /\ inbox = <<>>
  /\ aggregated = <<>>
  /\ errOnce = <<>>
  /\ chanClosed = FALSE
  /\ aggDone = FALSE
  /\ returned = <<>>

\* trace, err := a.retriever.GetTrace(blockNum); the channels, the map and the
\* aggregator goroutine are made
GetTrace ==
  /\ main = "init"
  /\ IF traceErr
     THEN /\ main' = "returned"
          /\ returned' = << [err |-> <<"trace">>, res |-> EmptyBlockResult] >>
     ELSE /\ main' = (IF trace = <<>> THEN "wait" ELSE "go")
          /\ UNCHANGED returned
  /\ UNCHANGED <<blockNum, traceErr, trace, goIdx, tasks, inbox, aggregated,
                 errOnce, chanClosed, aggDone>>
  /\ UNCHANGED <<walkVars, cacheVars, bitVars, retryVars, engineVars>>

\* workers.Go without the semaphore of SetLimit
Go_NoLimit ==
  /\ main = "go"
  /\ goIdx' = goIdx + 1
  /\ tasks' = Append(tasks, [tx |-> trace[goIdx + 1], st |-> "run", sent |-> 0, runs |-> 1])
  /\ main' = (IF goIdx + 1 = Len(trace) THEN "wait" ELSE "go")
  /\ UNCHANGED <<blockNum, traceErr, trace, inbox, aggregated, errOnce,
                 chanClosed, aggDone, returned>>
  /\ UNCHANGED <<walkVars, cacheVars, bitVars, retryVars, engineVars>>

\* one iteration of "for _, tx := range trace": workers.Go blocks while
\* NumCPU tasks are running, then starts the closure, which holds the tx of
\* this iteration and calls a.analyze on it
Go ==
  /\ main = "go"
  /\ Cardinality(Running) < NumCPU
  /\ goIdx' = goIdx + 1
  /\ tasks' = Append(tasks, [tx |-> trace[goIdx + 1], st |-> "run", sent |-> 0, runs |-> 1])
  /\ main' = (IF goIdx + 1 = Len(trace) THEN "wait" ELSE "go")
  /\ UNCHANGED <<blockNum, traceErr, trace, inbox, aggregated, errOnce,
                 chanClosed, aggDone, returned>>
  /\ UNCHANGED <<walkVars, cacheVars, bitVars, retryVars, engineVars>>

\* results <- r in a task meets "for result := range results" in the
\* aggregator: the channel is unbuffered, the aggregator takes a result only
\* when it has merged the one before
Send ==
  /\ inbox = <<>>
  /\ ~chanClosed
  /\ \E i \in Running :
       /\ tasks[i].sent < Len(analyze[tasks[i].tx].out)
       /\ inbox' = << analyze[tasks[i].tx].out[tasks[i].sent + 1] >>
       /\ tasks' = [tasks EXCEPT ![i].sent = @ + 1]
  /\ UNCHANGED <<blockNum, traceErr, trace, main, goIdx, aggregated, errOnce,
                 chanClosed, aggDone, returned>>
  /\ UNCHANGED <<walkVars, cacheVars, bitVars, retryVars, engineVars>>

\* the body of the aggregator's loop
Aggregate ==
  /\ inbox # <<>>
  /\ aggregated' = MergeResult(aggregated, inbox[1])
  /\ inbox' = <<>>
  /\ UNCHANGED <<blockNum, traceErr, trace, main, goIdx, tasks, errOnce,
                 chanClosed, aggDone, returned>>
  /\ UNCHANGED <<walkVars, cacheVars, bitVars, retryVars, engineVars>>

\* a.analyze returns in a task: the errgroup keeps the first error (errOnce)
\* and frees the task's slot
TaskReturn ==
  /\ \E i \in Running :
       /\ tasks[i].sent = Len(analyze[tasks[i].tx].out)
       /\ tasks' = [tasks EXCEPT ![i].st = "done"]
       /\ errOnce' = IF analyze[tasks[i].tx].err /\ errOnce = <<>> THEN <<i>> ELSE errOnce
  /\ UNCHANGED <<blockNum, traceErr, trace, main, goIdx, inbox, aggregated,
                 chanClosed, aggDone, returned>>
  /\ UNCHANGED <<walkVars, cacheVars, bitVars, retryVars, engineVars>>

\* workers.Wait returning what the aggregator holds even after an error
Wait_Partial ==
  /\ main = "wait"
  /\ Running = {}
  /\ chanClosed' = TRUE
  /\ IF errOnce # <<>>
     THEN /\ main' = "returned"
          /\ returned' = << [err |-> errOnce,
                              res |-> [BlockNum |-> blockNum, Results |-> aggregated]] >>
     ELSE /\ main' = "drain"
          /\ UNCHANGED returned
  /\ UNCHANGED <<blockNum, traceErr, trace, goIdx, tasks, inbox, aggregated,
                 errOnce, aggDone>>
  /\ UNCHANGED <<walkVars, cacheVars, bitVars, retryVars, engineVars>>

\* close(results) without waiting for the tasks
Wait_NoJoin ==
  /\ main = "wait"
  /\ chanClosed' = TRUE
  /\ IF errOnce # <<>>
     THEN /\ main' = "returned"
          /\ returned' = << [err |-> errOnce, res |-> EmptyBlockResult] >>
     ELSE /\ main' = "drain"
          /\ UNCHANGED returned
  /\ UNCHANGED <<blockNum, traceErr, trace, goIdx, tasks, inbox, aggregated,
                 errOnce, aggDone>>
  /\ UNCHANGED <<walkVars, cacheVars, bitVars, retryVars, engineVars>>

\* workers.Wait returns when every started task has returned; with an error
\* Analyze closes results and returns BlockResult{} and the error, without
\* one it closes results and goes on to wait for done
Wait ==
  /\ main = "wait"
  /\ Running = {}
  /\ chanClosed' = TRUE
  /\ IF errOnce # <<>>
     THEN /\ main' = "returned"
          /\ returned' = << [err |-> errOnce, res |-> EmptyBlockResult] >>
     ELSE /\ main' = "drain"
          /\ UNCHANGED returned
  /\ UNCHANGED <<blockNum, traceErr, trace, goIdx, tasks, inbox, aggregated,
                 errOnce, aggDone>>
  /\ UNCHANGED <<walkVars, cacheVars, bitVars, retryVars, engineVars>>

\* the aggregator's range loop ends on the closed, drained channel: close(done)
Done ==
  /\ chanClosed
  /\ inbox = <<>>
  /\ ~aggDone
  /\ aggDone' = TRUE
  /\ UNCHANGED <<blockNum, traceErr, trace, main, goIdx, tasks, inbox,
                 aggregated, errOnce, chanClosed, returned>>
  /\ UNCHANGED <<walkVars, cacheVars, bitVars, retryVars, engineVars>>

\* <-done; return BlockResult{BlockNum: blockNum, Results: aggregated}, nil
ReturnBlock ==
  /\ main = "drain"
  /\ aggDone
  /\ main' = "returned"
  /\ returned' = << [err |-> <<>>,
                      res |-> [BlockNum |-> blockNum, Results |-> aggregated]] >>
  /\ UNCHANGED <<blockNum, traceErr, trace, goIdx, tasks, inbox, aggregated,
                 errOnce, chanClosed, aggDone>>
  /\ UNCHANGED <<walkVars, cacheVars, bitVars, retryVars, engineVars>>

NextBlock ==
  GetTrace \/ Go \/ Send \/ Aggregate \/ TaskReturn \/ Wait \/ Done \/ ReturnBlock

\* the analysis of one block
SpecBlock == InitBlock /\ [][NextBlock]_vars
\* the same with the goroutines of Analyze scheduled: a goroutine that can
\* run (a task, the aggregator, Analyze itself) is run in the end
SpecBlockLive == InitBlock /\ [][NextBlock]_vars /\ WF_vars(NextBlock)

\* ------------------------------------------------------------------ C14
\* the results the tasks have sent so far: <<i, k>> is the k-th of task i
Sent == {ik \in (1..Len(tasks)) \X (1..2) : ik[2] <= tasks[ik[1]].sent}
SentResult(ik) == analyze[tasks[ik[1]].tx].out[ik[2]]
SentFor(a) == {ik \in Sent : SentResult(ik).Addr = a}
RECURSIVE SumOps(_)
SumOps(S) ==
  IF S = {} THEN 0
  ELSE LET ik == CHOOSE x \in S : TRUE
       IN  SentResult(ik).CodeOpsCount + SumOps(S \ {ik})
Succeeded == returned # <<>> /\ returned[1].err = <<>>
C14_MergeRule ==
  Succeeded =>
    LET R == returned[1].res.Results
    IN  /\ returned[1].res.BlockNum = blockNum
        /\ DOMAIN R = {SentResult(ik).Addr : ik \in Sent}
        /\ \A a \in DOMAIN R :
             /\ R[a].Bits.bits = UNION {SentResult(ik).Bits.bits : ik \in SentFor(a)}
             /\ R[a].CodeOpsCount = SumOps(SentFor(a))
             /\ \A ik \in SentFor(a) :
                  SentFor(a) = {ik} =>
                    /\ R[a].Bits = SentResult(ik).Bits
                    /\ R[a].CodeOpsCount = SentResult(ik).CodeOpsCount
\* C14: in the BlockResult of a successful Analyze every address has the union
\* of the bits and the sum of the counters of all results sent for it in the
\* block, an address with one result has that result unchanged, and no other
\* address appears.
C14_AggregatorMerge == C14_MergeRule
\* a successful block where three transactions sent results for A and two for B
C14_Witness ==
  /\ Succeeded
  /\ Cardinality(SentFor("A")) = 3
  /\ Cardinality(SentFor("B")) = 2
  /\ returned[1].res.Results["A"].Bits.bits = {0, 1, 32}
  /\ returned[1].res.Results["B"].CodeOpsCount = 1

\* ------------------------------------------------------------------ C15
\* the analysis of some transaction of the block returns an error
SomeTxFails == \E i \in 1..Len(trace) : analyze[trace[i]].err
\* C15: when the analysis of any transaction of the block returns an error,
\* Analyze returns an error and the empty BlockResult (block number 0, no
\* map), whatever the aggregator has merged by then.
C15_NoPartialResult ==
  (returned # <<>> /\ SomeTxFails) =>
    /\ returned[1].err # <<>>
    /\ returned[1].res = EmptyBlockResult
    /\ returned[1].res.BlockNum = 0
    /\ DOMAIN returned[1].res.Results = {}
\* Analyze has returned an error while the aggregator holds merged results of
\* two addresses
C15_Witness ==
  /\ returned # <<>> /\ SomeTxFails
  /\ returned[1].err # <<>>
  /\ DOMAIN aggregated = {"A", "B"}

\* ------------------------------------------------------------------ C16
\* what a reader of the returned map sees for each address
View(R) ==
  [a \in DOMAIN R |->
     [bits |-> R[a].Bits.bits, Count |-> Count(R[a].Bits),
      ChunkCount |-> ChunkCount(R[a].Bits), CodeOpsCount |-> R[a].CodeOpsCount]]
\* the same without Count()
ViewNoCount(R) ==
  [a \in DOMAIN R |->
     [bits |-> R[a].Bits.bits,
      ChunkCount |-> ChunkCount(R[a].Bits), CodeOpsCount |-> R[a].CodeOpsCount]]
\* the results of the block in the order of the transaction list, and the map
\* the aggregator builds when they reach it in that order
RECURSIVE InListOrder(_)
InListOrder(n) == IF n = 0 THEN <<>> ELSE InListOrder(n - 1) \o analyze[trace[n]].out
RECURSIVE MergedInOrder(_, _)
MergedInOrder(seq, n) ==
  IF n = 0 THEN <<>> ELSE MergeResult(MergedInOrder(seq, n - 1), seq[n])
Sequential == MergedInOrder(InListOrder(Len(trace)), Len(InListOrder(Len(trace))))
\* C16: for a block whose tasks all succeed, the returned mapping from address
\* to (set bits, Count(), ChunkCount(), counter) is the same for every order
\* in which the results reach the aggregator: it is the mapping of the order
\* of the transaction list.
C16_OrderIndependent ==
  Succeeded => View(returned[1].res.Results) = View(Sequential)
\* the part of the mapping that does not depend on the order
C16_OrderIndependentButCount ==
  Succeeded => ViewNoCount(returned[1].res.Results) = ViewNoCount(Sequential)

\* ------------------------------------------------------------------ C17
\* a task of the block has returned an error
TaskFailed == errOnce # <<>>
\* the aggregator merges nothing more
C17_NoFurtherMerge == TaskFailed => aggregated' = aggregated
\* no task is started and no started task goes on sending
C17_Cancelled ==
  TaskFailed =>
    /\ goIdx' = goIdx
    /\ \A i \in 1..Len(tasks) : tasks'[i].sent = tasks[i].sent
\* the error kept is the one of the task that failed first, and Analyze
\* returns it
C17_FirstError ==
  /\ TaskFailed => errOnce' = errOnce
  /\ (TaskFailed /\ returned = <<>> /\ returned' # <<>>) => returned'[1].err = errOnce
\* C17: once a task of the block has failed the aggregator merges no further
\* result, the tasks in flight or not yet started are cancelled and do not
\* run to completion, and Analyze returns the first task error.
C17_FailFast == [][C17_NoFurtherMerge /\ C17_Cancelled /\ C17_FirstError]_vars

AddrWords == { <<"0", "x", "a", "b">>, <<"A", "B">>, <<"c", "d">> }
CacheBlocks == {1, 11}

Lower(c) == IF c = "A" THEN "a" ELSE IF c = "B" THEN "b" ELSE c
\* common.HexToAddress: drops a 0x prefix and reads the hex digits in either
\* case; the address is kept as its lower-case digits
HexToAddress(w) ==
  LET d == IF Len(w) >= 2 /\ w[1] = "0" /\ w[2] \in {"x", "X"}
           THEN SubSeq(w, 3, Len(w)) ELSE w
  IN  [i \in 1..Len(d) |-> Lower(d[i])]
\* Address.Hex: the prefixed rendering of the address
Hex(a) == <<"0", "x">> \o a
DigitChar == <<"0", "1", "2", "3", "4", "5", "6", "7", "8", "9">>
\* %d
RECURSIVE Decimal(_)
Decimal(n) ==
  IF n < 10 THEN << DigitChar[n + 1] >>
  ELSE Decimal(n \div 10) \o << DigitChar[(n % 10) + 1] >>

\* a key made of the address alone
codeCacheKey_NoBlock(addr, n) == Hex(addr)
\* codeCacheKey: fmt.Sprintf("%s:%d", addr.Hex(), blockNum)
codeCacheKey(addr, n) == Hex(addr) \o <<":">> \o Decimal(n)

\* eth_getCode at the node: ab has no code before block 11 and two bytes of
\* code from then on, cd has one byte of code from block 11 on, and for cd
\* before block 11 the node answers a payload that is not well-formed hex
EthGetCode(addr, n) ==
  IF addr = <<"a", "b">>
  THEN (IF n < 11 THEN <<"0", "x">> ELSE <<"0", "x", "6", "0", "0", "1">>)
  ELSE (IF n < 11 THEN <<"0", "x", "6">> ELSE <<"0", "x", "6", "0">>)

HexVal(c) ==
  IF c = "0" THEN 0 ELSE IF c = "1" THEN 1 ELSE IF c = "6" THEN 6 ELSE -1
\* hexutil.Decode taking the payload "0x" for an error
Decode_EmptyIsError(s) ==
  IF Len(s) <= 2 THEN [err |-> TRUE, bytes |-> <<>>]
  ELSE [err |-> FALSE,
        bytes |-> [i \in 1..((Len(s) - 2) \div 2) |->
                     16 * HexVal(s[2 * i + 1]) + HexVal(s[2 * i + 2])]]
\* hexutil.Decode: errors on the empty string, on a missing 0x prefix, on an
\* odd number of digits and on a character that is no hex digit; "0x" alone
\* decodes to zero bytes
Decode(s) ==
  IF Len(s) = 0 THEN [err |-> TRUE, bytes |-> <<>>]
  ELSE IF ~(Len(s) >= 2 /\ s[1] = "0" /\ s[2] \in {"x", "X"})
  THEN [err |-> TRUE, bytes |-> <<>>]
  ELSE IF (Len(s) - 2) % 2 = 1 THEN [err |-> TRUE, bytes |-> <<>>]
  ELSE IF \E i \in 3..Len(s) : HexVal(s[i]) < 0 THEN [err |-> TRUE, bytes |-> <<>>]
  ELSE [err |-> FALSE,
        bytes |-> [i \in 1..((Len(s) - 2) \div 2) |->
                     16 * HexVal(s[2 * i + 1]) + HexVal(s[2 * i + 2])]]

\* lru.Cache
CacheKeys(c) == {c[i].key : i \in 1..Len(c)}
CacheIndex(c, k) == CHOOSE i \in 1..Len(c) : c[i].key = k
Without(c, i) == SubSeq(c, 1, i - 1) \o SubSeq(c, i + 1, Len(c))
\* Get: the entry becomes the most recently used
CacheGet(c, k) ==
  IF k \in CacheKeys(c)
  THEN [ok |-> TRUE, value |-> c[CacheIndex(c, k)].code,
        cache |-> << c[CacheIndex(c, k)] >> \o Without(c, CacheIndex(c, k))]
  ELSE [ok |-> FALSE, value |-> <<>>, cache |-> c]
\* Add: the entry is put in front; over the capacity the least recently used
\* entry is evicted
CacheAdd(c, k, v) ==
  LET rest == IF k \in CacheKeys(c) THEN Without(c, CacheIndex(c, k)) ELSE c
      all  == << [key |-> k, code |-> v] >> \o rest
  IN  IF Len(all) > CacheCap THEN SubSeq(all, 1, CacheCap) ELSE all

Getters == {1, 2}
Pairs == {<<HexToAddress(w), n>> : w \in AddrWords, n \in CacheBlocks}
\* the pairs still remembered after the cache has become c
Remembered(kn, c) ==
  [q \in {q \in DOMAIN kn : codeCacheKey(q[1], q[2]) \in CacheKeys(c)} |-> kn[q]]

InitCache ==
  /\ family = "cache" /\ status = "idle" /\ failed = FALSE /\ to = "A"
  /\ nread = 0 /\ cur = <<>> /\ closed = FALSE /\ calls = <<>> /\ ret = 0
  /\ results = <<>> /\ ref = <<>> /\ mark = NoMark
  /\ noCreate = TRUE /\ noEmpty = TRUE /\ kRef = 0 /\ mRef = 0
  /\ counter = 0 /\ iters = 0
  /\ BlockIdle
  /\ BitsIdle
  /\ RetryIdle
  /\ EngineIdle
  /\ codeCache = <<>>
  /\ gets = [p \in Getters |-> [at |-> "idle", id |-> 0]]
  /\ nGets = 0
  /\ known = <<>>

\* getCode up to the cache lookup: on a hit it returns the cached code
Lookup ==
  /\ nGets < MaxGets
  /\ \E p \in Getters, w \in AddrWords, n \in CacheBlocks :
       /\ gets[p].at \in {"idle", "done"}
       /\ LET addrHex == HexToAddress(w)
              got == CacheGet(codeCache, codeCacheKey(addrHex, n))
          IN  /\ codeCache' = got.cache
              /\ gets' = [gets EXCEPT ![p] =
                   IF got.ok
                   THEN [at |-> "done", id |-> nGets + 1, addr |-> w, blockNum |-> n,
                         via |-> "cache", netErr |-> FALSE, err |-> FALSE,
                         code |-> got.value]
                   ELSE [at |-> "net", id |-> nGets + 1, addr |-> w, blockNum |-> n]]
  /\ nGets' = nGets + 1
  /\ UNCHANGED known
  /\ UNCHANGED <<walkVars, blockVars, bitVars, retryVars, engineVars>>

\* getCode storing an empty code when the call or the decoding fails
Fetch_CacheFailure ==
  /\ \E p \in Getters, netOk \in BOOLEAN :
       /\ gets[p].at = "net"
       /\ LET addrHex == HexToAddress(gets[p].addr)
              n == gets[p].blockNum
              dec == Decode(EthGetCode(addrHex, n))
              result == [addr |-> addrHex, code |-> IF netOk THEN dec.bytes ELSE <<>>]
          IN  /\ gets' = [gets EXCEPT ![p] =
                         [at |-> "done", id |-> gets[p].id, addr |-> gets[p].addr, blockNum |-> n,
                          via |-> "net", netErr |-> ~netOk, err |-> ~netOk \/ dec.err,
                          code |-> IF ~netOk \/ dec.err THEN <<>> ELSE result]]
              /\ codeCache' = CacheAdd(codeCache, codeCacheKey(addrHex, n), result)
              /\ known' = IF ~netOk \/ dec.err THEN Remembered(known, codeCache')
                          ELSE Remembered((<<addrHex, n>> :> dec.bytes) @@ known, codeCache')
  /\ UNCHANGED nGets
  /\ UNCHANGED <<walkVars, blockVars, bitVars, retryVars, engineVars>>

\* getCode after a miss: a.client.Code, hexutil.Decode, codeCache.Add, return
Fetch ==
  /\ \E p \in Getters, netOk \in BOOLEAN :
       /\ gets[p].at = "net"
       /\ LET addrHex == HexToAddress(gets[p].addr)
              n == gets[p].blockNum
              dec == Decode(EthGetCode(addrHex, n))
              result == [addr |-> addrHex, code |-> dec.bytes]
          IN  IF ~netOk \/ dec.err
              THEN /\ gets' = [gets EXCEPT ![p] =
                         [at |-> "done", id |-> gets[p].id, addr |-> gets[p].addr, blockNum |-> n,
                          via |-> "net", netErr |-> ~netOk, err |-> TRUE, code |-> <<>>]]
                   /\ UNCHANGED <<codeCache, known>>
              ELSE /\ gets' = [gets EXCEPT ![p] =
                         [at |-> "done", id |-> gets[p].id, addr |-> gets[p].addr, blockNum |-> n,
                          via |-> "net", netErr |-> FALSE, err |-> FALSE, code |-> result]]
                   /\ codeCache' = CacheAdd(codeCache, codeCacheKey(addrHex, n), result)
                   /\ known' = Remembered((<<addrHex, n>> :> dec.bytes) @@ known, codeCache')
  /\ UNCHANGED nGets
  /\ UNCHANGED <<walkVars, blockVars, bitVars, retryVars, engineVars>>

NextCache == Lookup \/ Fetch

\* getCode invocations of concurrent tasks over one cache
SpecCache == InitCache /\ [][NextCache]_vars

\* ------------------------------------------------------------------ C19
\* task p has just started a getCode and done its cache lookup
LookedUp(p) == nGets' = nGets + 1 /\ gets'[p].id = nGets'
\* task p has just had the answer of a network call
NetworkCall(p) == gets'[p].at = "done" /\ gets'[p].via = "net" /\ gets'[p] # gets[p]
PairOf(g) == << HexToAddress(g.addr), g.blockNum >>
C19_AtLookup ==
  \A p \in Getters :
    LookedUp(p) =>
      LET q == PairOf(gets'[p])
      IN  /\ gets'[p].at = "net" => codeCacheKey(q[1], q[2]) \notin CacheKeys(codeCache)
          /\ q \in DOMAIN known =>
               /\ gets'[p].at = "done" /\ gets'[p].via = "cache" /\ ~gets'[p].err
               /\ gets'[p].code.code = known[q]
          /\ gets'[p].at = "done" =>
               gets'[p].code.code = Decode(EthGetCode(q[1], q[2])).bytes
C19_AtNetwork ==
  \A p \in Getters :
    NetworkCall(p) =>
      /\ gets[p].at = "net"
      /\ gets'[p].id = gets[p].id
C19_KeyIsExact ==
  \A q1 \in Pairs, q2 \in Pairs :
    codeCacheKey(q1[1], q1[2]) = codeCacheKey(q2[1], q2[2]) => q1 = q2
\* C19: getCode makes a network call only after its lookup found no entry
\* under the key of its exact (address, block) pair; once a getCode of a pair
\* has succeeded and while the entry is not evicted, every later getCode of
\* the pair returns the same bytes from the cache, without a network call;
\* the same address at another block has another key, and a hit returns the
\* code of the pair asked for.
C19_CacheBeforeNetwork == [][C19_AtLookup /\ C19_AtNetwork /\ C19_KeyIsExact]_vars
\* a hit on ab at block 11 (two bytes) while ab at block 1 (no code) is cached
C19_Witness ==
  /\ \E p \in Getters :
       /\ gets[p].at = "done" /\ gets[p].via = "cache"
       /\ PairOf(gets[p]) = << <<"a", "b">>, 11 >>
       /\ Len(gets[p].code.code) = 2
  /\ codeCacheKey(<<"a", "b">>, 1) \in CacheKeys(codeCache)

\* ------------------------------------------------------------------ C20
\* the node answers the pair with the payload of an account without code
NoCodeAt(q) == EthGetCode(q[1], q[2]) = <<"0", "x">>
C20_Stored ==
  \A p \in Getters :
    (NetworkCall(p) /\ ~gets'[p].netErr /\ NoCodeAt(PairOf(gets'[p]))) =>
      LET q == PairOf(gets'[p])
          k == codeCacheKey(q[1], q[2])
      IN  /\ ~gets'[p].err
          /\ gets'[p].code.code = <<>>
          /\ k \in CacheKeys(codeCache')
          /\ codeCache'[CacheIndex(codeCache', k)].code.code = <<>>
C20_HitAgain ==
  \A p \in Getters :
    (LookedUp(p) /\ PairOf(gets'[p]) \in DOMAIN known /\ NoCodeAt(PairOf(gets'[p]))) =>
      /\ gets'[p].at = "done" /\ gets'[p].via = "cache"
      /\ ~gets'[p].err
      /\ gets'[p].code.code = <<>>
\* C20: a resolution that yields zero bytes of code is returned without error
\* and stored in the cache like any other, so that a second getCode of the
\* pair is a cache hit returning the empty code.
C20_EmptyCodeCached == [][C20_Stored /\ C20_HitAgain]_vars
\* a cache hit that returned the empty code of ab at block 1
C20_Witness ==
  \E p \in Getters :
    /\ gets[p].at = "done" /\ gets[p].via = "cache" /\ ~gets[p].err
    /\ PairOf(gets[p]) = << <<"a", "b">>, 1 >>
    /\ gets[p].code.code = <<>>

\* ====================================================== the BitSet (bits)
\* The accessor at the level of its words.  A uint32 word is kept as the set
\* of the positions of its one bits (0 the least significant): OR is union,
\* OnesCount32 is the cardinality, word != 0 is non-emptiness, and a shift of 1
\* by 32 or more is the empty word.  The repository holds the BitSet with the
\* cached counter setCount and 32 code bytes per word, and the BitSet without
\* it with 32, 15 (the default of the variable chunkSize) or 31 code bytes per
\* word; Engine.Run sets the variable chunkSize from the configuration.
Builds == { [ver |-> "cached", width |-> 32], [ver |-> "computed", width |-> 32],
            [ver |-> "computed", width |-> 15], [ver |-> "computed", width |-> 31] }
\* the sizes asked of NewBitSet: the bounds of the valid range are asked for
\* the accessor a only
SizeChoices(x) ==
  {0, 1, 2, 33, 34} \cup (IF x = "a" THEN {maxContractBytes, maxContractBytes + 1} ELSE {})
IndexChoices(size) == {0, size - 1, size}
AccNames == {"a", "b"}

\* uint32(1 << bitIndex)
Mask(bitIndex) == IF bitIndex < 32 THEN {bitIndex} ELSE {}

\* NewBitSet without the test against maxContractBytes
BitSet_NewBitSet_NoMax(size) ==
  IF size = 0 THEN [out |-> "panic", b |-> <<>>]
  ELSE [out |-> "ok",
        b |-> [size |-> size,
               bits |-> [k \in 0..(((size + width - 1) \div width) - 1) |-> {}],
               setCount |-> 0]]
\* NewBitSet: panics on size 0 and on a size above maxContractBytes
BitSet_NewBitSet(size) ==
  IF size = 0 THEN [out |-> "panic", b |-> <<>>]
  ELSE IF size > maxContractBytes THEN [out |-> "panic", b |-> <<>>]
  ELSE [out |-> "ok",
        b |-> [size |-> size,
               bits |-> [k \in 0..(((size + width - 1) \div width) - 1) |-> {}],
               setCount |-> 0]]

\* set that sets no bit
BitSet_set_Nothing(b, index) == b
\* BitSet.set (the body of Set and SetWithCheck in the earlier BitSet): the
\* cached BitSet counts the bit in setCount when the bit was clear
BitSet_set(b, index) ==
  LET wordIndex == index \div width
      bitIndex == index % width
      mask == Mask(bitIndex)
  IN  [b EXCEPT !.bits[wordIndex] = @ \cup mask,
                !.setCount = IF ver = "cached" /\ b.bits[wordIndex] \cap mask = {}
                             THEN @ + 1 ELSE @]

\* BitSet.Set: panics on index >= size
BitSet_Set(b, index) ==
  IF index >= b.size
  THEN [out |-> "panic", ret |-> "none", b |-> b]
  ELSE [out |-> "ok", ret |-> "receiver", b |-> BitSet_set(b, index)]

\* SetWithCheck that sets the bit before it tests the index
BitSet_SetWithCheck_Late(b, index) ==
  IF index >= b.size
  THEN [out |-> "err", ret |-> "nil",
        b |-> IF index \div width \in DOMAIN b.bits THEN BitSet_set(b, index) ELSE b]
  ELSE [out |-> "ok", ret |-> "receiver", b |-> BitSet_set(b, index)]
\* BitSet.SetWithCheck: returns nil and an error on index >= size
BitSet_SetWithCheck(b, index) ==
  IF index >= b.size
  THEN [out |-> "err", ret |-> "nil", b |-> b]
  ELSE [out |-> "ok", ret |-> "receiver", b |-> BitSet_set(b, index)]

\* the sum of OnesCount32 over the words lo..hi (summed by halves)
RECURSIVE OnesIn(_, _, _)
OnesIn(bits, lo, hi) ==
  IF lo > hi THEN 0
  ELSE IF lo = hi THEN Cardinality(bits[lo])
  ELSE LET mid == (lo + hi) \div 2
       IN  OnesIn(bits, lo, mid) + OnesIn(bits, mid + 1, hi)
\* the loop of Count over the words
OnesCount(b) == OnesIn(b.bits, 0, Cardinality(DOMAIN b.bits) - 1)
\* BitSet.Count: the cached BitSet returns setCount when it is not zero
BitSet_Count(b) ==
  IF ver = "cached" /\ b.setCount # 0 THEN b.setCount ELSE OnesCount(b)

\* ChunkCount that counts the bits
BitSet_ChunkCount_Bits(b) == OnesCount(b)
\* BitSet.ChunkCount: the number of words that are not zero
BitSet_ChunkCount(b) == Cardinality({k \in DOMAIN b.bits : b.bits[k] # {}})

\* Chunks that flags the words that are not zero
BitSet_Chunks_Flags(b) ==
  [i \in 1..Cardinality(DOMAIN b.bits) |-> IF b.bits[i - 1] # {} THEN 1 ELSE 0]
\* BitSet.Chunks: one byte per word, the number of one bits of the word
BitSet_Chunks(b) ==
  [i \in 1..Cardinality(DOMAIN b.bits) |->
     IF b.bits[i - 1] # {} THEN Cardinality(b.bits[i - 1]) % 256 ELSE 0]

\* encoding/base64: the alphabet of StdEncoding and its padding character
encodeStd ==
  << "A","B","C","D","E","F","G","H","I","J","K","L","M","N","O","P",
     "Q","R","S","T","U","V","W","X","Y","Z","a","b","c","d","e","f",
     "g","h","i","j","k","l","m","n","o","p","q","r","s","t","u","v",
     "w","x","y","z","0","1","2","3","4","5","6","7","8","9","+","/" >>
StdPadding == "="
ByteAt(src, i) == IF i <= Len(src) THEN src[i] ELSE 0
\* the 24 bits of the g-th group of three bytes, missing bytes as zero
Quantum(src, g) ==
  ByteAt(src, 3 * g + 1) * 65536 + ByteAt(src, 3 * g + 2) * 256 + ByteAt(src, 3 * g + 3)
Pow64(s) == IF s = 0 THEN 1 ELSE IF s = 1 THEN 64 ELSE IF s = 2 THEN 4096 ELSE 262144
\* base64.StdEncoding.EncodeToString without its padding: a group of m < 3
\* bytes gives m + 1 characters
EncodeToString_Raw(src) ==
  [p \in 1 .. (4 * (Len(src) \div 3)
               + (IF Len(src) % 3 = 0 THEN 0 ELSE (Len(src) % 3) + 1)) |->
     encodeStd[((Quantum(src, (p - 1) \div 4) \div Pow64(3 - ((p - 1) % 4))) % 64) + 1]]
\* base64.StdEncoding.EncodeToString: four characters for every group of
\* three bytes, six bits each, the last group padded with "="
EncodeToString(src) ==
  [p \in 1 .. (4 * ((Len(src) + 2) \div 3)) |->
     LET g == (p - 1) \div 4
         s == (p - 1) % 4
         m == IF Len(src) - 3 * g >= 3 THEN 3 ELSE Len(src) - 3 * g
     IN  IF s > m THEN StdPadding
         ELSE encodeStd[((Quantum(src, g) \div Pow64(3 - s)) % 64) + 1]]

\* BitSet.EncodeChunks: the base64 text of Chunks(); the slice is taken once,
\* as a sequence value
BitSet_EncodeChunks(b) ==
  LET chunks == BitSet_Chunks(b) \o <<>>
  IN  EncodeToString(chunks)

\* Merge without the test of the sizes
BitSet_Merge_NoSizeTest(b, other) ==
  [out |-> "ok", ret |-> "receiver",
   b |-> [b EXCEPT !.bits = [k \in DOMAIN b.bits |->
                               b.bits[k] \cup (IF k \in DOMAIN other.bits
                                                THEN other.bits[k] ELSE {})]]]
\* Merge that overwrites the words of the receiver
BitSet_Merge_Overwrite(b, other) ==
  IF b.size # other.size
  THEN [out |-> "panic", ret |-> "none", b |-> b]
  ELSE [out |-> "ok", ret |-> "receiver",
        b |-> [b EXCEPT !.bits = [k \in DOMAIN b.bits |-> other.bits[k]]]]
\* BitSet.Merge: panics on different sizes, else ORs the words of other into
\* the receiver; setCount is not touched
BitSet_Merge(b, other) ==
  IF b.size # other.size
  THEN [out |-> "panic", ret |-> "none", b |-> b]
  ELSE [out |-> "ok", ret |-> "receiver",
        b |-> [b EXCEPT !.bits = [k \in DOMAIN b.bits |-> b.bits[k] \cup other.bits[k]]]]

\* BitSet.IsFull: setCount == size in the cached BitSet, Count() == size in
\* the other
BitSet_IsFull(b) ==
  IF ver = "cached" THEN b.setCount = b.size ELSE BitSet_Count(b) = b.size

InitBits ==
  /\ family = "bits" /\ status = "idle" /\ failed = FALSE /\ to = "A"
  /\ nread = 0 /\ cur = <<>> /\ closed = FALSE /\ calls = <<>> /\ ret = 0
  /\ results = <<>> /\ ref = <<>> /\ mark = NoMark
  /\ noCreate = TRUE /\ noEmpty = TRUE /\ kRef = 0 /\ mRef = 0
  /\ counter = 0 /\ iters = 0
  /\ BlockIdle
  /\ CacheIdle
  /\ RetryIdle
  /\ EngineIdle
  /\ \E bld \in Builds : ver = bld.ver /\ width = bld.width
  /\ accs = [x \in AccNames |-> <<>>]
  /\ marked = [x \in AccNames |-> {}]
  /\ lastOp = <<>>
  /\ nOps = 0

Others == <<walkVars, blockVars, cacheVars, retryVars, engineVars>>

\* x = NewBitSet(size)
DoNew ==
  /\ nOps < MaxBitOps
  /\ \E x \in AccNames :
       /\ accs[x] = <<>>
       /\ \E size \in SizeChoices(x) :
            LET r == BitSet_NewBitSet(size)
            IN  /\ accs' = [accs EXCEPT ![x] = r.b]
                /\ lastOp' = << [op |-> "NewBitSet", recv |-> x, other |-> x,
                                 arg |-> size, out |-> r.out, ret |-> "new"] >>
  /\ nOps' = nOps + 1
  /\ UNCHANGED <<ver, width, marked>>
  /\ UNCHANGED Others

\* x.Set(index)
DoSet ==
  /\ nOps < MaxBitOps
  /\ \E x \in AccNames :
       /\ accs[x] # <<>>
       /\ \E index \in IndexChoices(accs[x].size) :
            LET r == BitSet_Set(accs[x], index)
            IN  /\ accs' = [accs EXCEPT ![x] = r.b]
                /\ marked' = IF r.out = "ok" THEN [marked EXCEPT ![x] = @ \cup {index}]
                              ELSE marked
                /\ lastOp' = << [op |-> "Set", recv |-> x, other |-> x, arg |-> index,
                                 out |-> r.out, ret |-> r.ret] >>
  /\ nOps' = nOps + 1
  /\ UNCHANGED <<ver, width>>
  /\ UNCHANGED Others

\* x.SetWithCheck(index)
DoSetWithCheck ==
  /\ nOps < MaxBitOps
  /\ \E x \in AccNames :
       /\ accs[x] # <<>>
       /\ \E index \in IndexChoices(accs[x].size) :
            LET r == BitSet_SetWithCheck(accs[x], index)
            IN  /\ accs' = [accs EXCEPT ![x] = r.b]
                /\ marked' = IF r.out = "ok" THEN [marked EXCEPT ![x] = @ \cup {index}]
                              ELSE marked
                /\ lastOp' = << [op |-> "SetWithCheck", recv |-> x, other |-> x,
                                 arg |-> index, out |-> r.out, ret |-> r.ret] >>
  /\ nOps' = nOps + 1
  /\ UNCHANGED <<ver, width>>
  /\ UNCHANGED Others

\* x.Merge(y); y may be x itself
DoMerge ==
  /\ nOps < MaxBitOps
  /\ \E x \in AccNames, y \in AccNames :
       /\ accs[x] # <<>> /\ accs[y] # <<>>
       /\ LET r == BitSet_Merge(accs[x], accs[y])
          IN  /\ accs' = [accs EXCEPT ![x] = r.b]
              /\ marked' = IF r.out = "ok" THEN [marked EXCEPT ![x] = @ \cup marked[y]]
                            ELSE marked
              /\ lastOp' = << [op |-> "Merge", recv |-> x, other |-> y, arg |-> 0,
                               out |-> r.out, ret |-> r.ret] >>
  /\ nOps' = nOps + 1
  /\ UNCHANGED <<ver, width>>
  /\ UNCHANGED Others

NextBits == DoNew \/ DoSet \/ DoSetWithCheck \/ DoMerge

\* sequences of operations on two accessors
SpecBits == InitBits /\ [][NextBits]_vars

\* ------------------------------------------------------------------ C21
\* the operation just done, its receiver and the receiver before and after
Did(op) == nOps' = nOps + 1 /\ lastOp'[1].op = op
Op == lastOp'[1]
Recv == accs[lastOp'[1].recv]
RecvAfter == accs'[lastOp'[1].recv]
C21_AtNew ==
  Did("NewBitSet") =>
    /\ Op.out = "panic" <=> (Op.arg = 0 \/ Op.arg > 24576)
    /\ Op.out = "ok" =>
         /\ RecvAfter # <<>>
         /\ RecvAfter.size = Op.arg
         /\ BitSet_Count(RecvAfter) = 0
         /\ BitSet_ChunkCount(RecvAfter) = 0
    /\ Op.out = "panic" => RecvAfter = <<>>
\* C21: NewBitSet(size) panics exactly when size is 0 or above 24576; for
\* every other size it returns an accessor of that size with Count() = 0 and
\* ChunkCount() = 0.
C21_NewBitSet == [][C21_AtNew]_vars
\* an accessor of the largest size and a refused size 0
C21_Witness ==
  /\ accs # <<>> /\ accs["a"] # <<>> /\ accs["a"].size = 24576
  /\ lastOp # <<>> /\ lastOp[1].op = "NewBitSet" /\ lastOp[1].recv = "b"
  /\ lastOp[1].out = "panic"

\* ------------------------------------------------------------------ C22
\* index j is set in the words of accessor b
IsSet(b, j) == (j % width) \in b.bits[j \div width]
\* the indices set in the words of b
SetBits(b) ==
  UNION { {k * width + p : p \in b.bits[k]} : k \in DOMAIN b.bits }
C22_AtSet ==
  (Did("Set") /\ Op.out = "ok") =>
    /\ BitSet_Count(RecvAfter) - BitSet_Count(Recv)
         = (IF Op.arg \in marked[Op.recv] THEN 0 ELSE 1)
    /\ SetBits(RecvAfter) \ {Op.arg} = SetBits(Recv) \ {Op.arg}
    /\ IsSet(RecvAfter, Op.arg)
    /\ RecvAfter.size = Recv.size
    /\ Op.ret = "receiver"
\* C22: in every state of an accessor reached by Set, SetWithCheck and Merge,
\* Set(i) with i < size adds exactly 1 to Count() when i was not set and 0
\* when it was, changes no other index and returns the receiver.
C22_SetIdempotent == [][C22_AtSet]_vars
\* the same on the accessors whose counter is computed from the words
C22_SetIdempotentComputed == [][ver = "computed" => C22_AtSet]_vars

\* ------------------------------------------------------------------ C23
C23_SetOutOfRange ==
  Did("Set") =>
    /\ Op.out = "panic" <=> Op.arg >= Recv.size
    /\ Op.out = "panic" =>
         /\ RecvAfter = Recv
         /\ SetBits(RecvAfter) = SetBits(Recv)
         /\ BitSet_Count(RecvAfter) = BitSet_Count(Recv)
C23_CheckedOutOfRange ==
  (Did("SetWithCheck") /\ Op.arg >= Recv.size) =>
    /\ Op.out = "err" /\ Op.ret = "nil"
    /\ RecvAfter = Recv
    /\ SetBits(RecvAfter) = SetBits(Recv)
    /\ BitSet_Count(RecvAfter) = BitSet_Count(Recv)
C23_CheckedInRange ==
  (Did("SetWithCheck") /\ Op.arg < Recv.size) =>
    /\ Op.out = "ok" /\ Op.ret = "receiver"
    /\ IsSet(RecvAfter, Op.arg)
\* C23: for i >= size Set(i) panics and SetWithCheck(i) returns a nil accessor
\* and an error, and both leave the set bits and Count() of the accessor as
\* they were; for i < size SetWithCheck returns the receiver and no error.
C23_OutOfRangeUnchanged ==
  [][C23_SetOutOfRange /\ C23_CheckedOutOfRange /\ C23_CheckedInRange]_vars
\* SetWithCheck(33) refused on an accessor of size 33 that has a bit set
C23_Witness ==
  /\ lastOp # <<>> /\ lastOp[1].op = "SetWithCheck" /\ lastOp[1].out = "err"
  /\ lastOp[1].arg = 33
  /\ accs[lastOp[1].recv].size = 33
  /\ marked[lastOp[1].recv] # {}

\* ------------------------------------------------------------------ C24
\* the argument of the Merge just done, as it was before the call
Other == accs[lastOp'[1].other]
C24_AtMerge ==
  (Did("Merge") /\ Op.out = "ok") =>
    /\ SetBits(RecvAfter) = SetBits(BitSet_Merge(Other, Recv).b)
    /\ SetBits(BitSet_Merge(RecvAfter, Other).b) = SetBits(RecvAfter)
    /\ SetBits(BitSet_Merge(Recv, Recv).b) = SetBits(Recv)
    /\ Op.recv = Op.other => SetBits(RecvAfter) = SetBits(Recv)
\* C24: for accessors a and b of equal size, a.Merge(b) and b.Merge(a) leave
\* their receivers with the same set of marked indices, and a.Merge(a), or
\* merging the same b into a a second time, gives the marked indices of one
\* merge.
C24_MergeCommutativeIdempotent == [][C24_AtMerge]_vars
\* a merge of two accessors that each hold an index the other lacks
C24_Witness ==
  /\ lastOp # <<>> /\ lastOp[1].op = "Merge" /\ lastOp[1].out = "ok"
  /\ lastOp[1].recv # lastOp[1].other
  /\ marked[lastOp[1].other] # {}
  /\ marked[lastOp[1].recv] \ marked[lastOp[1].other] # {}

\* ------------------------------------------------------------------ C25
C25_AtMerge ==
  (Did("Merge") /\ Recv.size # Other.size) =>
    /\ Op.out = "panic"
    /\ accs' = accs
    /\ SetBits(RecvAfter) = SetBits(Recv)
    /\ SetBits(accs'[Op.other]) = SetBits(Other)
\* C25: a.Merge(b) with a.size # b.size panics and changes neither a nor b,
\* also when the two sizes need the same number of words.
C25_MergeSizeMismatch == [][C25_AtMerge]_vars
\* a refused merge of sizes 33 and 34, which take the same number of words,
\* where the argument holds an index the receiver lacks
C25_Witness ==
  /\ lastOp # <<>> /\ lastOp[1].op = "Merge" /\ lastOp[1].out = "panic"
  /\ {accs[lastOp[1].recv].size, accs[lastOp[1].other].size} = {33, 34}
  /\ DOMAIN accs[lastOp[1].recv].bits = DOMAIN accs[lastOp[1].other].bits
  /\ marked[lastOp[1].other] \ marked[lastOp[1].recv] # {}

\* ------------------------------------------------------------------ C26
\* an accessor as a sequence of Set calls alone leaves it: the counter of the
\* BitSet that caches it agrees with the words
BuiltBySets(b) == ver = "cached" => b.setCount = OnesCount(b)
C26_AtMerge ==
  (Did("Merge") /\ Op.out = "ok" /\ BuiltBySets(Recv) /\ BuiltBySets(Other)) =>
    /\ BitSet_Count(RecvAfter) = Cardinality(SetBits(Recv) \cup SetBits(Other))
    /\ Op.ret = "receiver"
    /\ Op.recv # Op.other =>
         /\ SetBits(accs'[Op.other]) = SetBits(Other)
         /\ BitSet_Count(accs'[Op.other]) = BitSet_Count(Other)
\* C26: for accessors a and b of equal size built by Set calls, after
\* a.Merge(b) the value a.Count() is the number of indices marked in a or in b
\* before the merge, Merge returns the receiver, and the marked indices and
\* Count() of b are unchanged.
C26_MergeCount == [][C26_AtMerge]_vars
\* the same on the copies of the BitSet that count the words on every Count()
C26_MergeCountComputed == [][ver = "computed" => C26_AtMerge]_vars

\* ------------------------------------------------------------------ C27
C27_At(b) ==
  /\ BitSet_IsFull(b) <=> BitSet_Count(b) = b.size
  /\ BitSet_Count(b) = b.size <=> SetBits(b) = 0 .. (b.size - 1)
\* C27: in every accessor state reached by Set, SetWithCheck and Merge,
\* IsFull() is true if and only if Count() equals size, which is the case if
\* and only if every index 0..size-1 is marked.
C27_IsFull == \A x \in AccNames : accs[x] # <<>> => C27_At(accs[x])
\* the same on the copies of the BitSet that count the words on every Count()
C27_IsFullComputed == ver = "computed" => C27_IsFull

\* ------------------------------------------------------------------ C28
\* the number of windows of the width in force over size bytes
Windows(size) == (size + width - 1) \div width
\* the windows [k*width, (k+1)*width) that hold an index of the set s
Touched(s, size) ==
  {k \in 0 .. (Windows(size) - 1) :
     \E j \in s : k * width <= j /\ j < (k + 1) * width}
C28_At(x) ==
  /\ BitSet_ChunkCount(accs[x]) = Cardinality(Touched(marked[x], accs[x].size))
  /\ DOMAIN accs[x].bits = 0 .. (Windows(accs[x].size) - 1)
  /\ \A j \in marked[x] : accs[x].bits[j \div width] # {}
RECURSIVE SumIn(_, _, _)
\* the sum of the entries lo..hi of a sequence
SumIn(s, lo, hi) ==
  IF lo > hi THEN 0
  ELSE IF lo = hi THEN s[lo]
  ELSE LET mid == (lo + hi) \div 2
       IN  SumIn(s, lo, mid) + SumIn(s, mid + 1, hi)
\* the number of marked indices of accessor x in window k
InWindow(x, k) ==
  Cardinality({j \in marked[x] : k * width <= j /\ j < (k + 1) * width})
\* the value of a character of the base64 alphabet, padding as zero
decodeMap == [c \in {encodeStd[i] : i \in 1..64} |-> (CHOOSE i \in 1..64 : encodeStd[i] = c) - 1]
Sextet(c) == IF c = StdPadding THEN 0 ELSE decodeMap[c]
\* the bytes a padded base64 text stands for
Decoded(text) ==
  LET pads == Cardinality({p \in DOMAIN text : text[p] = StdPadding})
  IN  [i \in 1 .. (3 * (Len(text) \div 4) - pads) |->
         LET g == (i - 1) \div 3
             v == Sextet(text[4 * g + 1]) * 262144 + Sextet(text[4 * g + 2]) * 4096
                  + Sextet(text[4 * g + 3]) * 64 + Sextet(text[4 * g + 4])
         IN  (v \div (IF (i - 1) % 3 = 0 THEN 65536
                       ELSE IF (i - 1) % 3 = 1 THEN 256 ELSE 1)) % 256]
C29_At(x) ==
  LET b == accs[x]
      chunks == BitSet_Chunks(b) \o <<>>
      text == BitSet_EncodeChunks(b) \o <<>>
  IN  /\ Len(chunks) = Windows(b.size)
      /\ \A k \in 1 .. Len(chunks) :
            /\ chunks[k] = InWindow(x, k - 1)
            /\ chunks[k] \in 0 .. width
      /\ SumIn(chunks, 1, Len(chunks)) = BitSet_Count(b)
      /\ Len(text) = 4 * ((Len(chunks) + 2) \div 3)
      /\ \A p \in DOMAIN text :
            text[p] = StdPadding => p > Len(text) - ((3 - (Len(chunks) % 3)) % 3)
      /\ Decoded(text) = [k \in 1 .. Windows(b.size) |-> InWindow(x, k - 1)]
RetryFamilies == {"retry", "cancel"}
\* what fn returns: nil or one of two transport errors
FnOutcomes == {"nil", "e1", "e2"}
RECURSIVE Pow2(_)
Pow2(n) == IF n = 0 THEN 1 ELSE 2 * Pow2(n - 1)
\* time.Millisecond: the nanoseconds of the unit of the configured delays
Millisecond == 1000000
\* rand.Float64(), a number of [0, 1), in quarters
RandQuarters == {0, 1, 2, 3}
\* rand.Float64() * 0.5 * d added to d and cut to a whole duration
Jittered(d) == {d + ((r * d) \div 8) : r \in RandQuarters}
\* RpcClient.calculateDelay: the durations it can return for an attempt
calculateDelay(n) ==
  LET exp == baseDelay * Pow2(n - 1)
      capped == IF exp > maxDelay THEN maxDelay ELSE exp
  IN  IF jitter THEN Jittered(capped) ELSE {capped}

\* the configurations validateConfig accepts
InitRetry ==
  /\ family = "retry" /\ status = "idle" /\ failed = FALSE /\ to = "A"
  /\ nread = 0 /\ cur = <<>> /\ closed = FALSE /\ calls = <<>> /\ ret = 0
  /\ results = <<>> /\ ref = <<>> /\ mark = NoMark
  /\ noCreate = TRUE /\ noEmpty = TRUE /\ kRef = 0 /\ mRef = 0
  /\ counter = 0 /\ iters = 0
  /\ BlockIdle
  /\ CacheIdle
  /\ BitsIdle
  /\ maxAttempts \in 1 .. MaxRetryAttempts
  /\ \E base \in 0 .. MaxDelayMs, max \in 0 .. MaxDelayMs :
       /\ base <= max
       /\ baseDelay = base * Millisecond
       /\ maxDelay = max * Millisecond
  /\ jitter \in BOOLEAN
  /\ attempt = 0 /\ invoked = 0 /\ fnErrs = <<>> /\ waited = 0 /\ delay = <<>>
  /\ ctxDone = FALSE /\ ctxAtWait = FALSE /\ rpos = "idle" /\ rret = <<>>
  /\ EngineIdle

NotRetry == <<walkVars, blockVars, cacheVars, bitVars, engineVars>>
RetryConfigVars == <<maxAttempts, baseDelay, maxDelay, jitter>>

\* withRetry is entered: attempt := 1 and the loop test
CallWithRetry ==
  /\ family \in RetryFamilies /\ rpos = "idle"
  /\ attempt' = 1
  /\ rpos' = IF 1 <= maxAttempts THEN "call" ELSE "returned"
  /\ rret' = IF 1 <= maxAttempts THEN rret
             ELSE << [err |-> "failed", attempts |-> maxAttempts, wraps |-> "nil"] >>
  /\ UNCHANGED <<RetryConfigVars, invoked, fnErrs, waited, delay, ctxDone, ctxAtWait>>
  /\ UNCHANGED NotRetry

\* the loop body without its test of the last attempt: it waits after every
\* failure
Invoke_NoBreak ==
  /\ family \in RetryFamilies /\ rpos = "call"
  /\ \E err \in FnOutcomes :
       /\ invoked' = invoked + 1
       /\ fnErrs' = Append(fnErrs, err)
       /\ IF err = "nil"
          THEN /\ rret' = << [err |-> "nil", attempts |-> attempt, wraps |-> "nil"] >>
               /\ rpos' = "returned"
               /\ UNCHANGED <<waited, delay, ctxAtWait>>
          ELSE /\ \E d \in calculateDelay(attempt) : delay' = Append(delay, d)
               /\ waited' = waited + 1
               /\ ctxAtWait' = ctxDone
               /\ rpos' = "wait"
               /\ UNCHANGED rret
  /\ UNCHANGED <<RetryConfigVars, attempt, ctxDone>>
  /\ UNCHANGED NotRetry

\* one pass of the loop body: fn is invoked; nil returns nil; an error on the
\* last attempt leaves the loop and returns it wrapped; an error before that
\* computes the delay and enters the select
Invoke ==
  /\ family \in RetryFamilies /\ rpos = "call"
  /\ \E err \in FnOutcomes :
       /\ invoked' = invoked + 1
       /\ fnErrs' = Append(fnErrs, err)
       /\ IF err = "nil"
          THEN /\ rret' = << [err |-> "nil", attempts |-> attempt, wraps |-> "nil"] >>
               /\ rpos' = "returned"
               /\ UNCHANGED <<waited, delay, ctxAtWait>>
          ELSE IF attempt = maxAttempts
          THEN /\ rret' = << [err |-> "failed", attempts |-> maxAttempts, wraps |-> err] >>
               /\ rpos' = "returned"
               /\ UNCHANGED <<waited, delay, ctxAtWait>>
          ELSE /\ \E d \in calculateDelay(attempt) : delay' = Append(delay, d)
               /\ waited' = waited + 1
               /\ ctxAtWait' = ctxDone
               /\ rpos' = "wait"
               /\ UNCHANGED rret
  /\ UNCHANGED <<RetryConfigVars, attempt, ctxDone>>
  /\ UNCHANGED NotRetry

\* select, case <-time.After(delay): attempt++ and the loop test; past the
\* last attempt the loop ends and the last error is returned wrapped. A
\* select that blocks is decided by the first of its channels to become
\* ready: the timer once the context is cancelled can win only when both were
\* ready on entry, the context cancelled before and the delay zero
TimeAfter ==
  /\ family \in RetryFamilies /\ rpos = "wait"
  /\ ~ctxDone \/ (ctxAtWait /\ delay[waited] = 0)
  /\ attempt' = attempt + 1
  /\ IF attempt + 1 <= maxAttempts
     THEN rpos' = "call" /\ UNCHANGED rret
     ELSE /\ rpos' = "returned"
          /\ rret' = << [err |-> "failed", attempts |-> maxAttempts,
                          wraps |-> fnErrs[Len(fnErrs)]] >>
  /\ UNCHANGED <<RetryConfigVars, invoked, fnErrs, waited, delay, ctxDone, ctxAtWait>>
  /\ UNCHANGED NotRetry

\* select, case <-c.ctx.Done(): the context's error is returned wrapped
CtxDone ==
  /\ family \in RetryFamilies /\ rpos = "wait" /\ ctxDone
  /\ rret' = << [err |-> "cancelled", attempts |-> attempt, wraps |-> "ctx.Err"] >>
  /\ rpos' = "returned"
  /\ UNCHANGED <<RetryConfigVars, attempt, invoked, fnErrs, waited, delay, ctxDone, ctxAtWait>>
  /\ UNCHANGED NotRetry

\* the owner of the context cancels it, at any moment before the return
Cancel ==
  /\ family \in RetryFamilies /\ ~ctxDone /\ rpos # "returned"
  /\ ctxDone' = TRUE
  /\ UNCHANGED <<RetryConfigVars, attempt, invoked, fnErrs, waited, delay, ctxAtWait, rpos, rret>>
  /\ UNCHANGED NotRetry

NextRetry == CallWithRetry \/ Invoke \/ TimeAfter \/ CtxDone \/ Cancel

\* one call of withRetry under every accepted configuration
SpecRetry == InitRetry /\ [][NextRetry]_vars

\* ------------------------------------------------------------------ C30
Returned == rpos = "returned"
\* every invocation so far returned an error
AllFailed == \A k \in 1 .. Len(fnErrs) : fnErrs[k] # "nil"
\* at most MaxAttempts invocations, and none after a success
C30_Ceiling ==
  /\ invoked <= maxAttempts /\ invoked = Len(fnErrs)
  /\ \A k \in 1 .. Len(fnErrs) : fnErrs[k] = "nil" => (k = Len(fnErrs) /\ Returned)
\* nil is returned exactly after a success
C30_Nil ==
  Returned => (rret[1].err = "nil" <=> (invoked >= 1 /\ fnErrs[invoked] = "nil"))
\* waits lie between two attempts: one is entered only while an attempt is
\* left, and a return that is not a cancellation follows one wait less than
\* invocations
C30_Waits ==
  /\ rpos = "wait" => (invoked < maxAttempts /\ waited = invoked)
  /\ rpos = "call" => waited = invoked
  /\ (Returned /\ rret[1].err # "cancelled") => waited = invoked - 1
\* the error that wraps the last failure is returned exactly when all
\* MaxAttempts invocations failed
C30_Failed ==
  Returned =>
    /\ rret[1].err = "failed" <=> (invoked = maxAttempts /\ AllFailed)
    /\ rret[1].err = "failed" => rret[1].wraps = fnErrs[invoked]
\* the other error is the cancellation seen in a wait, after fewer invocations
C30_Cancelled ==
  (Returned /\ rret[1].err = "cancelled") =>
    /\ ctxDone /\ rret[1].wraps = "ctx.Err"
    /\ invoked >= 1 /\ invoked < maxAttempts /\ AllFailed /\ waited = invoked
\* C30 (as amended): withRetry invokes fn at most MaxAttempts times, returns
\* nil right after the first success, waits only between attempts, returns
\* the error wrapping the last failure exactly when all MaxAttempts
\* invocations failed, and returns an error wrapping the context's error when
\* the context is cancelled during a wait.
C30_RetryCeiling ==
  C30_Ceiling /\ C30_Nil /\ C30_Waits /\ C30_Failed /\ C30_Cancelled
\* C30 (as stated): a non-nil error, wrapping the last failure, is returned
\* exactly when all MaxAttempts invocations failed.
C30_ErrorOnlyAfterAllAttempts ==
  Returned =>
    /\ rret[1].err # "nil" <=> (invoked = maxAttempts /\ AllFailed)
    /\ rret[1].err # "nil" => rret[1].wraps = fnErrs[invoked]
\* three attempts that all failed, two waits between them, the last error
\* returned
C30_Witness ==
  /\ Returned /\ rret[1].err = "failed" /\ rret[1].wraps = "e2"
  /\ maxAttempts = 3 /\ fnErrs = <<"e1", "e1", "e2">> /\ waited = 2

\* ------------------------------------------------------------------ C31
Min(a, b) == IF a <= b THEN a ELSE b
\* delay[k] is the delay waited before retry k, after the k-th failure
C31_Capped == \A k \in DOMAIN delay : delay[k] <= maxDelay
C31_Exponential ==
  ~jitter =>
    /\ \A k \in DOMAIN delay : delay[k] = Min(baseDelay * Pow2(k - 1), maxDelay)
    /\ \A k \in DOMAIN delay : k > 1 => delay[k - 1] <= delay[k]
\* C31: the delay waited before any retry never exceeds MaxDelay, with and
\* without jitter; without jitter the delay before retry k is
\* min(BaseDelay * 2^(k-1), MaxDelay) and does not decrease with k.
C31_DelayCap == C31_Capped /\ C31_Exponential
\* the same with the cap claimed only where no jitter is added
C31_DelayCapNoJitter == (~jitter => C31_Capped) /\ C31_Exponential

\* ---------------------------------------------------------------------
\* The way of an error of withRetry up to the engine worker: RpcClient.Code
\* or TransactionByHash, getCode or getCodeFromTx, the caller of getCode in
\* the walk, analyze and its task, Analyze, the worker of Engine.Run.
\* ---------------------------------------------------------------------
Sites == {"entry", "call", "ext"}

\* one RPC of one lookup, under every accepted retry configuration
InitCancel ==
  /\ family = "cancel" /\ status = "idle" /\ failed = FALSE /\ to = "A"
  /\ nread = 0 /\ cur = <<>> /\ closed = FALSE /\ calls = <<>> /\ ret = 0
  /\ results = <<>> /\ ref = <<>> /\ mark = NoMark
  /\ noCreate = TRUE /\ noEmpty = TRUE /\ kRef = 0 /\ mRef = 0
  /\ counter = 0 /\ iters = 0
  /\ BlockIdle
  /\ CacheIdle
  /\ BitsIdle
  /\ maxAttempts \in 1 .. MaxRetryAttempts
  /\ \E base \in 0 .. MaxDelayMs, max \in 0 .. MaxDelayMs :
       /\ base <= max
       /\ baseDelay = base * Millisecond
       /\ maxDelay = max * Millisecond
  /\ jitter \in BOOLEAN
  /\ attempt = 0 /\ invoked = 0 /\ fnErrs = <<>> /\ waited = 0 /\ delay = <<>>
  /\ ctxDone = FALSE /\ ctxAtWait = FALSE /\ rpos = "idle" /\ rret = <<>>
  /\ site \in Sites
  /\ txFailed \in BOOLEAN
  /\ rpcOp \in (IF site = "entry" THEN {"TransactionByHash", "Code"} ELSE {"Code"})
  /\ chain = "withRetry"
  /\ chainVal = "none"
  /\ WorkersIdle

NotEngine == <<walkVars, blockVars, cacheVars, bitVars, retryVars>>

\* RpcClient.Code, RpcClient.TransactionByHash: the error of withRetry is
\* returned as it is, nil gives the result
ClientReturn ==
  /\ family = "cancel" /\ chain = "withRetry" /\ rpos = "returned"
  /\ chain' = "client"
  /\ chainVal' = IF rret[1].err = "nil" THEN "ok" ELSE "err"
  /\ UNCHANGED <<site, txFailed, rpcOp, workerVars>>
  /\ UNCHANGED NotEngine

\* getCode after client.Code, getCodeFromTx after client.TransactionByHash:
\* an error returns (nil, err)
GetCodeReturn ==
  /\ family = "cancel" /\ chain = "client"
  /\ chain' = "getCode"
  /\ chainVal' = chainVal
  /\ UNCHANGED <<site, txFailed, rpcOp, workerVars>>
  /\ UNCHANGED NotEngine

\* the caller of getCode with an error in hand: analyze returns it; the two
\* callers in the walk return it unless trace.Failed, and then read
\* len(code.code) of the nil *Code
SiteReturn ==
  /\ family = "cancel" /\ chain = "getCode" /\ chainVal = "err"
  /\ chain' = "walk"
  /\ chainVal' = IF site = "entry" \/ ~txFailed THEN "err" ELSE "panic"
  /\ UNCHANGED <<site, txFailed, rpcOp, workerVars>>
  /\ UNCHANGED NotEngine

\* analyze returns the error of the walk and the task returns what analyze
\* returned; a panic in the task's goroutine ends the process
TaskReturn_Cancel ==
  /\ family = "cancel" /\ chain = "walk"
  /\ chain' = "task"
  /\ chainVal' = chainVal
  /\ UNCHANGED <<site, txFailed, rpcOp, workerVars>>
  /\ UNCHANGED NotEngine

\* Analyze: workers.Wait gives the task's error and Analyze returns it
AnalyzeReturn ==
  /\ family = "cancel" /\ chain = "task" /\ chainVal = "err"
  /\ chain' = "Analyze"
  /\ chainVal' = "err"
  /\ UNCHANGED <<site, txFailed, rpcOp, workerVars>>
  /\ UNCHANGED NotEngine

\* the worker of Engine.Run returns the error of Analyze
WorkerReturn ==
  /\ family = "cancel" /\ chain = "Analyze"
  /\ chain' = "worker"
  /\ chainVal' = chainVal
  /\ UNCHANGED <<site, txFailed, rpcOp, workerVars>>
  /\ UNCHANGED NotEngine

NextCancel ==
  \/ CallWithRetry \/ Invoke \/ TimeAfter \/ CtxDone \/ Cancel
  \/ ClientReturn \/ GetCodeReturn \/ SiteReturn \/ TaskReturn_Cancel
  \/ AnalyzeReturn \/ WorkerReturn

\* one RPC of one lookup of one transaction, up to the worker
SpecCancel == InitCancel /\ [][NextCancel]_vars

\* ------------------------------------------------------------------ C32
\* the context is cancelled while withRetry is blocked in its select
CancelledInWait == rpos = "wait" /\ ctxDone /\ ~ctxAtWait
\* the next step of withRetry is then the return of the cancellation error,
\* with no further invocation of fn
C32_NoFurtherAttempt ==
  (CancelledInWait /\ rpos' # "wait") =>
    /\ rpos' = "returned" /\ rret'[1].err = "cancelled"
    /\ invoked' = invoked /\ fnErrs' = fnErrs
\* the cancellation error has gone up as an error wherever it has got to
C32_GoesUp ==
  (rpos = "returned" /\ rret[1].err = "cancelled" /\ chain # "withRetry")
     => chainVal = "err"
\* C32: a cancellation raised while withRetry waits between attempts makes
\* withRetry return a cancellation error without a further attempt, and the
\* error goes up through getCode and the task: Analyze returns an error and
\* the worker stops with it.
C32_Cancellation == [][C32_NoFurtherAttempt /\ C32_GoesUp']_vars
\* the first half alone
C32_CancelledInWait == [][C32_NoFurtherAttempt]_vars
\* the second half for the lookups whose error the walk returns
C32_GoesUpUnlessFailedTrace == (site = "entry" \/ ~txFailed) => C32_GoesUp

\* ---------------------------------------------------------------------
\* Engine.Run: the block range is split among the workers, and every worker
\* analyses and writes its blocks one after the other. Block numbers are
\* unsigned and wrap around at 2^UintBits.
\* ---------------------------------------------------------------------
Modulus == 2 * Pow2(UintBits - 1)
MaxUint == Modulus - 1
\* unsigned arithmetic: the value modulo 2^UintBits
U(x) == (x + Modulus) % Modulus
\* the block numbers a configuration is drawn from: the ends of the number
\* range and their neighbours
BlockChoices == {0, 1, 2, MaxUint - 1, MaxUint}

totalBlocks == U(endBlock - startBlock + 1)
baseChunkSize == totalBlocks \div nWorkers
remainder == totalBlocks % nWorkers
RECURSIVE Assign(_, _)
\* the loop over the analyzers from worker i on: its chunk size, its start
\* and end, and currentStart for the next one
Assign(i, currentStart) ==
  IF i >= nWorkers THEN <<>>
  ELSE LET chunk == IF i < remainder THEN baseChunkSize + 1 ELSE baseChunkSize
           start == currentStart
           end == U(start + chunk - 1)
       IN  << [start |-> start, end |-> end] >> \o Assign(i + 1, U(end + 1))
RECURSIVE Assign_NoRemainder(_, _)
\* the loop without the share of the remainder
Assign_NoRemainder(i, currentStart) ==
  IF i >= nWorkers THEN <<>>
  ELSE LET start == currentStart
           end == U(start + baseChunkSize - 1)
       IN  << [start |-> start, end |-> end] >> \o Assign_NoRemainder(i + 1, U(end + 1))

\* every block range the configuration can hold and one or more analyzers
InitEngine ==
  /\ family = "engine" /\ status = "idle" /\ failed = FALSE /\ to = "A"
  /\ nread = 0 /\ cur = <<>> /\ closed = FALSE /\ calls = <<>> /\ ret = 0
  /\ results = <<>> /\ ref = <<>> /\ mark = NoMark
  /\ noCreate = TRUE /\ noEmpty = TRUE /\ kRef = 0 /\ mRef = 0
  /\ counter = 0 /\ iters = 0
  /\ BlockIdle
  /\ CacheIdle
  /\ BitsIdle
  /\ RetryIdle
  /\ ChainIdle
  /\ startBlock \in BlockChoices
  /\ endBlock \in BlockChoices
  /\ nWorkers \in 1 .. MaxWorkers
  /\ ranges = <<>>
  /\ wk = <<>>
  /\ runDone = FALSE

NotWorkers == <<walkVars, blockVars, cacheVars, bitVars, retryVars, chainVars>>

\* Run up to workers.Wait: the ranges are computed and every worker started
Run ==
  /\ family = "engine" /\ ranges = <<>>
  /\ ranges' = Assign(0, startBlock)
  /\ wk' = [w \in 1 .. nWorkers |->
             [block |-> ranges'[w].start, st |-> "run", log |-> <<>>]]
  /\ UNCHANGED <<startBlock, endBlock, nWorkers, runDone>>
  /\ UNCHANGED NotWorkers

\* a worker that writes whatever Analyze returned
WorkerBlock_WriteAlways(w) ==
  /\ family = "engine" /\ ranges # <<>> /\ wk[w].st = "run"
  /\ wk[w].block <= ranges[w].end
  /\ Len(wk[w].log) < MaxWorkerBlocks
  /\ \E an \in {"ok", "err"}, wr \in {"ok", "err"} :
       wk' = [wk EXCEPT ![w] =
                [block |-> IF wr = "ok" THEN U(@.block + 1) ELSE @.block,
                 st |-> IF wr = "ok" THEN "run" ELSE "err",
                 log |-> Append(@.log, [block |-> @.block, analyze |-> an, write |-> wr])]]
  /\ UNCHANGED <<startBlock, endBlock, nWorkers, ranges, runDone>>
  /\ UNCHANGED NotWorkers

\* one pass of the worker's loop: Analyze(block); on an error the worker
\* returns it; else Write(block, result.Results); on an error the worker
\* returns it; else block++
WorkerBlock(w) ==
  /\ family = "engine" /\ ranges # <<>> /\ wk[w].st = "run"
  /\ wk[w].block <= ranges[w].end
  /\ Len(wk[w].log) < MaxWorkerBlocks
  /\ \E an \in {"ok", "err"}, wr \in {"ok", "err"} :
       LET write == IF an = "ok" THEN wr ELSE "none"
       IN  /\ an = "err" => wr = "ok"
           /\ wk' = [wk EXCEPT ![w] =
                [block |-> IF write = "ok" THEN U(@.block + 1) ELSE @.block,
                 st |-> IF write = "ok" THEN "run" ELSE "err",
                 log |-> Append(@.log, [block |-> @.block, analyze |-> an, write |-> write])]]
  /\ UNCHANGED <<startBlock, endBlock, nWorkers, ranges, runDone>>
  /\ UNCHANGED NotWorkers

\* the loop test fails: the worker returns nil
WorkerEnd(w) ==
  /\ family = "engine" /\ ranges # <<>> /\ wk[w].st = "run"
  /\ wk[w].block > ranges[w].end
  /\ wk' = [wk EXCEPT ![w].st = "done"]
  /\ UNCHANGED <<startBlock, endBlock, nWorkers, ranges, runDone>>
  /\ UNCHANGED NotWorkers

\* workers.Wait returns when every worker has returned; Run logs an error
RunWait ==
  /\ family = "engine" /\ ranges # <<>> /\ ~runDone
  /\ \A w \in 1 .. nWorkers : wk[w].st # "run"
  /\ runDone' = TRUE
  /\ UNCHANGED <<startBlock, endBlock, nWorkers, ranges, wk>>
  /\ UNCHANGED NotWorkers

NextEngine ==
  \/ Run
  \/ \E w \in 1 .. nWorkers : WorkerBlock(w)
  \/ \E w \in 1 .. nWorkers : WorkerEnd(w)
  \/ RunWait

\* one run of the engine
SpecEngine == InitEngine /\ [][NextEngine]_vars

\* ------------------------------------------------------------------ C33
Started == ranges # <<>>
\* block b lies in the range of worker w
InRange(w, b) == ranges[w].start <= b /\ b <= ranges[w].end
\* the k-th pass of worker w ended in an error of Analyze or of Write
FailedAt(w, k) == wk[w].log[k].analyze = "err" \/ wk[w].log[k].write = "err"
\* the blocks of its range are processed in increasing order
C33_InOrder(w) ==
  \A k \in 1 .. Len(wk[w].log), l \in 1 .. Len(wk[w].log) :
    (k < l /\ InRange(w, wk[w].log[k].block) /\ InRange(w, wk[w].log[l].block))
       => wk[w].log[k].block < wk[w].log[l].block
\* the writer is called for a block only after its Analyze returned no error
C33_WriteAfterAnalyze(w) ==
  \A k \in 1 .. Len(wk[w].log) :
    wk[w].log[k].write # "none" <=> wk[w].log[k].analyze = "ok"
\* the first error is the end of the worker: no pass follows it
C33_StopsAtError(w) ==
  /\ \A k \in 1 .. Len(wk[w].log) : FailedAt(w, k) => (k = Len(wk[w].log) /\ wk[w].st = "err")
  /\ wk[w].st = "err" => (wk[w].log # <<>> /\ FailedAt(w, Len(wk[w].log)))
\* a step of one worker leaves the records of the others as they are, and a
\* worker that has failed takes no step
C33_Step ==
  Started =>
    /\ Cardinality({w \in 1 .. nWorkers : wk'[w] # wk[w]}) <= 1
    /\ \A w \in 1 .. nWorkers : wk[w].st = "err" => wk'[w] = wk[w]
BlocksOf(w) == {b \in 0 .. MaxUint : InRange(w, b)}
\* the share of worker w: the chunk size Run computed for it
ShareOf(w) == IF w - 1 < remainder THEN baseChunkSize + 1 ELSE baseChunkSize
C39_Contiguous ==
  /\ BlocksOf(1) # {} => ranges[1].start = startBlock
  /\ \A w \in 1 .. (nWorkers - 1) :
       BlocksOf(w + 1) # {} => ranges[w + 1].start = ranges[w].end + 1
C39_Disjoint ==
  \A v \in 1 .. nWorkers, w \in 1 .. nWorkers :
    v # w => BlocksOf(v) \cap BlocksOf(w) = {}
C39_Cover ==
  UNION {BlocksOf(w) : w \in 1 .. nWorkers} = startBlock .. endBlock
C39_Even ==
  \A v \in 1 .. nWorkers, w \in 1 .. nWorkers :
    Cardinality(BlocksOf(v)) - Cardinality(BlocksOf(w)) <= 1
C39_EmptyShare ==
  \A w \in 1 .. nWorkers :
    ShareOf(w) = 0 => (BlocksOf(w) = {} /\ wk[w].log = <<>>)
C39_All ==
  C39_Contiguous /\ C39_Disjoint /\ C39_Cover /\ C39_Even /\ C39_EmptyShare
\* C39: Run gives its n >= 1 workers block ranges that are contiguous,
\* pairwise disjoint, cover exactly [StartBlock, EndBlock] and differ in
\* length by at most one; a worker whose share is empty, also when StartBlock
\* is 0, processes no block.
C39_BlockPartition == Started => C39_All
\* the same for the ranges in which nothing wraps around: StartBlock is not
\* above EndBlock, and EndBlock is below the largest number
C39_PartitionNoWrap ==
  (Started /\ startBlock <= endBlock /\ endBlock < MaxUint) => C39_All

\* ============================================ analyzeSteps with *counter
\* The walker whose activations share one step index through a pointer
\* (analyze, analyzeSteps, handlePush with SetWithCheck). An activation is
\* [code, depth, result, at]: at is "enter" before the checks at the head of
\* analyzeSteps have run (result is <<>> then), "loop" at the head of the
\* loop, "call" while the nested analyzeSteps it called is running.
newTraceResult_Counter(code) ==
  [Addr |-> code.addr, Bits |-> NewBitSet(code.len),
   CodeSizeCount |-> 0, CodeCopyCount |-> 0, CodeHashCount |-> 0]

\* the loop of handlePush over bits.SetWithCheck, which returns an error for an
\* index outside the accessor
RECURSIVE PushLoop_Checked(_, _, _, _)
PushLoop_Checked(bits, pc, i, pushNumInt) ==
  IF i >= pushNumInt THEN [kind |-> "ok", b |-> bits]
  ELSE IF pc + 1 + i >= bits.size THEN [kind |-> "err", b |-> bits]
  ELSE PushLoop_Checked([bits EXCEPT !.bits = @ \cup {pc + 1 + i}], pc, i + 1,
                        pushNumInt)

handlePush_Checked(bits, step) ==
  LET pushNum == Atoi(Suffix(step.op, 4))
  IN  IF pushNum.err THEN [kind |-> "err", b |-> bits]
      ELSE PushLoop_Checked(bits, step.pc, 0, pushNum.n)

\* the field the EXT* case counts in
ExtCounter(op) ==
  IF op = "EXTCODESIZE" THEN "CodeSizeCount"
  ELSE IF op = "EXTCODEHASH" THEN "CodeHashCount"
  ELSE "CodeCopyCount"

\* the activation that runs, and the stack without it
Frame == calls[Len(calls)]
Caller == SubSeq(calls, 1, Len(calls) - 1)

\* analyzeSteps returns an error or panics
Fail_Counter(kind) ==
  /\ status' = (IF kind = "panic" THEN "panic" ELSE "error")
  /\ UNCHANGED <<calls, results, counter>>

\* a.results <- result; return nil: the caller's pass ends with *counter++,
\* and analyze returns nil when the outermost activation returns
Return_Counter(out) ==
  /\ results' = results \o out
  /\ IF Len(calls) = 1
     THEN calls' = <<>> /\ status' = "done" /\ UNCHANGED counter
     ELSE /\ calls' = [Caller EXCEPT ![Len(calls) - 1].at = "loop"]
          /\ counter' = counter + 1
          /\ UNCHANGED status

\* the pass ends with *counter++
Advance_Counter(res, out) ==
  /\ calls' = [calls EXCEPT ![Len(calls)].result = <<res>>]
  /\ results' = results \o out
  /\ counter' = counter + 1
  /\ UNCHANGED status

\* analyze: the code of the destination, counter := 0, the call of analyzeSteps
analyze_Counter ==
  /\ family = "counter" /\ status = "init"
  /\ UNCHANGED <<blockVars, cacheVars, bitVars, retryVars, engineVars>>
  /\ UNCHANGED <<family, failed, to, ret, results, mark, iters>>
  /\ UNCHANGED traceVars
  /\ LET code == getCode(to)
     IN  IF code.err
         THEN status' = "error" /\ UNCHANGED <<calls, counter>>
         ELSE /\ status' = "walk"
              /\ counter' = 0
              /\ calls' = << [code |-> code, depth |-> 1, result |-> <<>>,
                              at |-> "enter"] >>

\* the head of analyzeSteps: no step, the depth of steps[*counter], and
\* newTraceResult, whose NewBitSet panics for a code of length 0
enter_Counter ==
  /\ family = "counter" /\ status = "walk" /\ calls # <<>> /\ Frame.at = "enter"
  /\ UNCHANGED <<blockVars, cacheVars, bitVars, retryVars, engineVars>>
  /\ UNCHANGED <<family, failed, to, ret, mark, iters>>
  /\ \E ev \in Read(counter) :
       /\ Reveal(counter, ev)
       /\ IF ev = <<>>
          THEN IF nread = 0 THEN Return_Counter(<<>>)   \* len(steps) == 0
               ELSE Fail_Counter("panic")               \* steps[*counter]
          ELSE IF ev[1].depth # Frame.depth THEN Fail_Counter("err")
          ELSE IF Frame.code.len = 0 \/ Frame.code.len > maxContractBytes
          THEN Fail_Counter("panic")
          ELSE /\ calls' = [calls EXCEPT ![Len(calls)].result =
                                            << newTraceResult_Counter(Frame.code) >>,
                                         ![Len(calls)].at = "loop"]
               /\ UNCHANGED <<status, results, counter>>

\* one pass of the loop of analyzeSteps, or its end
analyzeSteps_Counter ==
  /\ family = "counter" /\ status = "walk" /\ calls # <<>> /\ Frame.at = "loop"
  /\ UNCHANGED <<blockVars, cacheVars, bitVars, retryVars, engineVars>>
  /\ UNCHANGED <<family, failed, to, ret, mark, iters>>
  /\ \E ev \in Read(counter) :
       /\ Reveal(counter, ev)
       /\ LET f == Frame
              result == f.result[1]
          IN  IF ev = <<>> THEN Return_Counter(<<result>>)
              ELSE
                LET step == ev[1]
                    op == step.op
                    s0 == Set(result.Bits, step.pc)
                    r0 == [result EXCEPT !.Bits = s0.b]
                IN  IF step.depth = f.depth - 1 THEN Return_Counter(<<result>>)
                    ELSE IF f.code.len = 0 THEN Advance_Counter(result, <<>>)
                    ELSE IF s0.panic THEN Fail_Counter("panic")
                    ELSE IF op = OpPush0 THEN Advance_Counter(r0, <<>>)
                    ELSE IF OpLen(op) > 4 /\ Prefix(op, 4) = <<"P","U","S","H">>
                    THEN LET p == handlePush_Checked(r0.Bits, step)
                         IN  IF p.kind = "ok"
                             THEN Advance_Counter([r0 EXCEPT !.Bits = p.b], <<>>)
                             ELSE Fail_Counter(p.kind)
                    ELSE IF op = "CODESIZE"
                    THEN Advance_Counter([r0 EXCEPT !.CodeSizeCount = @ + 1], <<>>)
                    ELSE IF op = "CODECOPY"
                    THEN Advance_Counter([r0 EXCEPT !.CodeCopyCount = @ + 1], <<>>)
                    ELSE IF op \in ExtOps
                    THEN IF Len(step.stack) = 0 THEN Fail_Counter("panic")
                         ELSE LET code == getCode(StackTop(step.stack))
                              IN  IF code.err /\ ~failed THEN Fail_Counter("err")
                                  ELSE IF code.err THEN Fail_Counter("panic")
                                  ELSE IF code.len # 0
                                  THEN Advance_Counter(r0,
                                         << [newTraceResult_Counter(code)
                                               EXCEPT ![ExtCounter(op)] = @ + 1] >>)
                                  ELSE Advance_Counter(r0, <<>>)
                    ELSE IF op \in CallOps
                    THEN IF Len(step.stack) < 2 THEN Fail_Counter("panic")
                         ELSE LET code == getCode(StackSecond(step.stack))
                              IN  IF code.err /\ ~failed THEN Fail_Counter("err")
                                  ELSE IF code.err THEN Fail_Counter("panic")
                                  ELSE IF code.len # 0
                                  THEN /\ counter' = counter + 1
                                       /\ calls' = Append(
                                            [calls EXCEPT ![Len(calls)].result = <<r0>>,
                                                          ![Len(calls)].at = "call"],
                                            [code |-> code, depth |-> f.depth + 1,
                                             result |-> <<>>, at |-> "enter"])
                                       /\ UNCHANGED <<status, results>>
                                  ELSE Advance_Counter(r0, <<>>)
                    ELSE Advance_Counter(r0, <<>>)

InitCounter == Start("counter")
NextCounter == analyze_Counter \/ enter_Counter \/ analyzeSteps_Counter
\* analyze with the walker that shares *counter
SpecCounter == InitCounter /\ [][NextCounter]_vars

\* ------------------------------------------------------------------ C34
\* the destination of the transaction resolves to a code of length 0
EntryEmpty == ~getCode(to).err /\ getCode(to).len = 0
\* analyze has returned or panicked
Over == status \in {"done", "error", "panic"}
\* the accessors of the results held by the activations and of those sent
Accessors ==
  {results[i].Bits : i \in 1..Len(results)}
  \cup (IF family = "counter"
        THEN {calls[i].result[1].Bits : i \in {j \in 1..Len(calls) : calls[j].result # <<>>}}
        ELSE {calls[i].res.Bits : i \in 1..Len(calls)})

\* C34: when the destination of the transaction resolves to empty code, the
\* analysis of the transaction sends no result and returns no error (it ends
\* by returning nil), also when the trace has steps, and no accessor of size 0
\* is ever constructed.
C34_EmptyEntryCode ==
  /\ EntryEmpty => (results = <<>> /\ status \in {"init", "walk", "done"})
  /\ \A b \in Accessors : b.size # 0

\* the same for analyze with analyzeSteps2, which tests the length of the code
\* before it constructs the result
C34_EmptyEntryCodeTested ==
  family # "counter" => C34_EmptyEntryCode
C34_Witness == EntryEmpty /\ status = "done" /\ results = <<>>

\* ------------------------------------------------------------------ C35
\* the getCode invocations that have returned a code with bytes: each is the
\* source of the results a task constructs for the address at the block
Resolved ==
  {p \in Getters : gets[p].at = "done" /\ ~gets[p].err /\ Len(gets[p].code.code) # 0}
\* newTraceResult on the code task p has resolved
ResultOf(p) ==
  [BlockNum |-> gets[p].blockNum, Addr |-> gets[p].code.addr,
   Bits |-> BitSet_NewBitSet(Len(gets[p].code.code)).b]
SameAddrAndBlock(p, q) ==
  ResultOf(p).Addr = ResultOf(q).Addr /\ ResultOf(p).BlockNum = ResultOf(q).BlockNum

\* C35: the node answering the same bytes for the same address and block, any
\* two results constructed for the same address within one block carry
\* accessors of equal size, the length of the code of the address at the
\* block, so that Merge of one into the other does not fail on the sizes,
\* whichever task resolved the code first and whether from the cache or from
\* the node.
C35_SameSize ==
  \A p \in Resolved :
    /\ ResultOf(p).Bits.size =
         Len(Decode(EthGetCode(ResultOf(p).Addr, ResultOf(p).BlockNum)).bytes)
    /\ \A q \in Resolved :
         SameAddrAndBlock(p, q) =>
           /\ ResultOf(p).Bits.size = ResultOf(q).Bits.size
           /\ BitSet_Merge(ResultOf(p).Bits, ResultOf(q).Bits).out = "ok"
\* two tasks hold results for ab at block 11, one resolved from the node under
\* one spelling of the address and one from the cache under another, while
\* the code of ab at block 1 has been resolved too
C35_Witness ==
  \E p \in Resolved, q \in Resolved :
    /\ SameAddrAndBlock(p, q)
    /\ gets[p].via = "net" /\ gets[q].via = "cache"
    /\ gets[p].addr # gets[q].addr
    /\ ResultOf(p).Bits.size = 2
    /\ codeCacheKey(<<"a", "b">>, 1) \in CacheKeys(codeCache)

\* ============================================ analyzeSteps with an index
\* The walker that passes the step index to the nested activation and takes
\* the index it returns (analyzeSteps, handleCallOps). An activation is
\* [code, depth, index, result, op, at]: at as above, op the opcode of the call
\* step whose nested analyzeSteps is running. It is called for the outermost
\* frame with the code of the destination, depth 1 and index 0.
caseCall(op)         == OpLen(op) = 4 /\ Spell[op][4] = "L"
caseStaticCall(op)   == OpLen(op) = 10 /\ Spell[op][10] = "L"
caseDelegateCall(op) == OpLen(op) = 12 /\ Spell[op][1] = "D"
caseCallCode(op)     == OpLen(op) = 8 /\ Spell[op][3] = "L"

Fail_Index(kind) ==
  /\ status' = (IF kind = "panic" THEN "panic" ELSE "error")
  /\ UNCHANGED <<calls, results, ret>>

\* the index of the caller after handleCallOps has returned newIndex: the
\* DELEGATECALL case goes on without index++ when newIndex is 0
IndexAfterCall(op, index, newIndex) ==
  IF newIndex # 0 THEN newIndex
  ELSE IF caseDelegateCall(op) THEN index
  ELSE index + 1

\* results <- *result; return index, nil
Return_Index(index, out) ==
  /\ results' = results \o out
  /\ ret' = index
  /\ IF Len(calls) = 1
     THEN calls' = <<>> /\ status' = "done"
     ELSE /\ calls' = [Caller EXCEPT
                         ![Len(calls) - 1].index = IndexAfterCall(Caller[Len(calls) - 1].op, @, index),
                         ![Len(calls) - 1].at = "loop"]
          /\ UNCHANGED status

\* the pass ends and the loop goes on at index
Continue_Index(res, out, index) ==
  /\ calls' = [calls EXCEPT ![Len(calls)].result = <<res>>,
                            ![Len(calls)].index = index]
  /\ results' = results \o out
  /\ UNCHANGED <<status, ret>>

\* the outermost call of analyzeSteps
call_Index ==
  /\ family = "index" /\ status = "init"
  /\ UNCHANGED <<blockVars, cacheVars, bitVars, retryVars, engineVars>>
  /\ UNCHANGED <<family, failed, to, ret, results, mark, counter, iters>>
  /\ UNCHANGED traceVars
  /\ LET code == getCode(to)
     IN  IF code.err
         THEN status' = "error" /\ UNCHANGED calls
         ELSE /\ status' = "walk"
              /\ calls' = << [code |-> code, depth |-> 1, index |-> 0,
                              result |-> <<>>, op |-> "", at |-> "enter"] >>

\* the head of analyzeSteps: no step, the depth of steps[index], newTraceResult
enter_Index ==
  /\ family = "index" /\ status = "walk" /\ calls # <<>> /\ Frame.at = "enter"
  /\ UNCHANGED <<blockVars, cacheVars, bitVars, retryVars, engineVars>>
  /\ UNCHANGED <<family, failed, to, mark, counter, iters>>
  /\ \E ev \in Read(Frame.index) :
       /\ Reveal(Frame.index, ev)
       /\ IF ev = <<>>
          THEN IF nread = 0 THEN Return_Index(0, <<>>)   \* stepsLen == 0
               ELSE Fail_Index("panic")                  \* steps[index]
          ELSE IF ev[1].depth # Frame.depth THEN Fail_Index("err")
          ELSE IF Frame.code.len = 0 \/ Frame.code.len > maxContractBytes
          THEN Fail_Index("panic")
          ELSE /\ calls' = [calls EXCEPT ![Len(calls)].result =
                                            << newTraceResult(Frame.code, Frame.index) >>,
                                         ![Len(calls)].at = "loop"]
               /\ UNCHANGED <<status, results, ret>>

\* handleCallOps and the index the loop goes on with
handleCallOps(f, step, r0) ==
  IF Len(step.stack) < 2 THEN Fail_Index("panic")
  ELSE LET code == getCode(StackSecond(step.stack))
       IN  IF code.err /\ ~failed THEN Fail_Index("err")
           ELSE IF code.err THEN Fail_Index("panic")     \* code is nil
           ELSE IF code.len # 0
           THEN /\ calls' = Append(
                      [calls EXCEPT ![Len(calls)].result = <<r0>>,
                                    ![Len(calls)].op = step.op,
                                    ![Len(calls)].at = "call"],
                      [code |-> code, depth |-> f.depth + 1, index |-> f.index + 1,
                       result |-> <<>>, op |-> "", at |-> "enter"])
                /\ UNCHANGED <<status, results, ret>>
           ELSE Continue_Index(r0, <<>>, IndexAfterCall(step.op, f.index, 0))

\* one pass of the loop of analyzeSteps, or its end
analyzeSteps_Index ==
  /\ family = "index" /\ status = "walk" /\ calls # <<>> /\ Frame.at = "loop"
  /\ iters < MaxIters
  /\ iters' = iters + 1
  /\ UNCHANGED <<blockVars, cacheVars, bitVars, retryVars, engineVars>>
  /\ UNCHANGED <<family, failed, to, mark, counter>>
  /\ \E ev \in Read(Frame.index) :
       /\ Reveal(Frame.index, ev)
       /\ LET f == Frame
              result == f.result[1]
          IN  IF ev = <<>> THEN Return_Index(f.index, <<result>>)
              ELSE
                LET step == ev[1]
                    op == step.op
                    s0 == Set(result.Bits, step.pc)
                    r0 == [result EXCEPT !.Bits = s0.b]
                IN  IF step.depth = f.depth - 1 THEN Return_Index(f.index, <<result>>)
                    ELSE IF step.pc = f.code.len /\ Spell[op][1] = "S"
                    THEN Return_Index(f.index + 1, <<result>>)
                    ELSE IF s0.panic THEN Fail_Index("panic")
                    ELSE IF op = OpPush0 THEN Continue_Index(r0, <<>>, f.index + 1)
                    ELSE IF casePush(op)
                    THEN LET p == handlePush(r0.Bits, step)
                         IN  IF p.kind = "ok"
                             THEN Continue_Index([r0 EXCEPT !.Bits = p.b], <<>>,
                                                 f.index + 1)
                             ELSE Fail_Index(p.kind)
                    ELSE IF caseCode(op)
                    THEN Continue_Index([r0 EXCEPT !.CodeOpsCount = @ + 1], <<>>,
                                        f.index + 1)
                    ELSE IF caseExt(op)
                    THEN LET h == handleExt(step, r0, failed)
                         IN  IF h.kind = "ok"
                             THEN Continue_Index(h.res, h.out, f.index + 1)
                             ELSE Fail_Index(h.kind)
                    ELSE IF caseCall(op) \/ caseStaticCall(op)
                            \/ caseDelegateCall(op) \/ caseCallCode(op)
                    THEN handleCallOps(f, step, r0)
                    ELSE Continue_Index(r0, <<>>, f.index + 1)

InitIndex == Start("index")
NextIndex == call_Index \/ enter_Index \/ analyzeSteps_Index
\* analyzeSteps with the index passed and returned
SpecIndex == InitIndex /\ [][NextIndex]_vars

\* ------------------------------------------------------------------ C36
\* a pass of the loop of analyzeSteps has run
Pass == iters' = iters + 1
\* the activation that ran the pass has returned, or the walk has ended with
\* an error or a panic
FrameEnded == Len(calls') < Len(calls) \/ status' \in {"done", "error", "panic"}
\* the pass has called the nested walk, which takes over at the next index
NestedEntered ==
  /\ Len(calls') = Len(calls) + 1
  /\ calls'[Len(calls')].index = calls[Len(calls)].index + 1
\* the activation goes on at a greater index
Advanced ==
  /\ Len(calls') = Len(calls)
  /\ calls'[Len(calls)].index > calls[Len(calls)].index
\* the caller of an activation that returns goes on at a greater index
CallerAdvanced ==
  (Len(calls') < Len(calls) /\ calls' # <<>>) =>
    calls'[Len(calls')].index > calls[Len(calls')].index

\* C36: every pass of the loop of analyzeSteps ends the current frame or goes
\* on at a strictly greater step index (through the nested walk when the step
\* is a call to an address with code), also for a CALL, CALLCODE, STATICCALL
\* or DELEGATECALL step whose target resolves to empty code, so that the walk
\* over a finite step list terminates.
C36_WalkTermination ==
  [][(Pass => (FrameEnded \/ NestedEntered \/ Advanced)) /\ CallerAdvanced]_vars

\* the same for every call step but DELEGATECALL on a target without code
DelegateToEmpty ==
  /\ calls # <<>> /\ Frame.at = "loop" /\ nread' = Frame.index + 1
  /\ cur'[1].op = "DELEGATECALL" /\ getCode(StackSecond(cur'[1].stack)).len = 0
C36_TerminationButDelegate ==
  [][(Pass /\ ~DelegateToEmpty => (FrameEnded \/ NestedEntered \/ Advanced))
     /\ CallerAdvanced]_vars

\* the same for analyzeSteps2: every transition of the walk ends an activation
\* or the walk, enters the nested activation at the next index, or leaves the
\* running activation at a greater index
C36_Progress2 ==
  [][(calls # <<>> /\ calls' # calls) =>
        \/ FrameEnded
        \/ NestedEntered
        \/ Advanced]_vars

\* ------------------------------------------------------------------ C37
\* close(results) has run only after every transaction had its task and every
\* task has sent all its results and returned
C37_ClosedAfterTasks ==
  chanClosed =>
    /\ goIdx = Len(trace)
    /\ \A i \in 1..Len(tasks) :
         tasks[i].st = "done" /\ tasks[i].sent = Len(analyze[tasks[i].tx].out)
\* nothing is sent on the closed channel
C37_NoSendOnClosed ==
  chanClosed => \A i \in 1..Len(tasks) : tasks'[i].sent = tasks[i].sent
\* a successful Analyze has returned after close(done): the aggregator holds
\* no result still to merge and the map returned is the one it has built
C37_ReturnedAfterMerge ==
  Succeeded =>
    /\ aggDone /\ chanClosed /\ inbox = <<>>
    /\ returned[1].res.Results = aggregated
    /\ DOMAIN aggregated = {SentResult(ik).Addr : ik \in Sent}
\* the map is not written after the successful return
C37_NoLateWrite == Succeeded => aggregated' = aggregated
\* a task that runs returns in the end: none is left blocked on its send
C37_NoTaskBlocked ==
  \A i \in 1..MaxTxs :
    (i <= Len(tasks) /\ tasks[i].st = "run")
       ~> (i <= Len(tasks) /\ tasks[i].st = "done")

\* C37: in Analyze the results channel is closed only after every task has
\* returned, so that no task sends on the closed channel and no task stays
\* blocked on a send; a successful Analyze returns only after the aggregator
\* has merged every result sent, with the map that holds them all, and the map
\* is not written afterwards.
C37_ChannelDiscipline ==
  /\ [](C37_ClosedAfterTasks /\ C37_ReturnedAfterMerge)
  /\ [][C37_NoSendOnClosed /\ C37_NoLateWrite]_vars
  /\ C37_NoTaskBlocked
\* a successful block of MaxTxs transactions that sent five results
C37_Witness ==
  /\ Succeeded
  /\ Len(trace) = MaxTxs
  /\ Cardinality(Sent) = 5
  /\ aggDone /\ inbox = <<>>

\* ------------------------------------------------------------------ C38
\* the walk has panicked at 'step = steps[index]' after a nested walk: the
\* activation waits for its nested call, the index returned is not 0 and the
\* list has no step at it
OutOfRangeRead ==
  /\ status = "panic"
  /\ calls # <<>> /\ Top.at = "call"
  /\ ret # 0 /\ ret = nread /\ closed

\* C38: whatever the step list whose first step is at depth 1, also one that
\* ends inside a nested frame or right after the implicit STOP of a nested
\* frame, analyzeSteps2 reads no step at an index that is not below the
\* length of the list: after a nested walk has returned index n the caller
\* reads steps[n] only if n is below the length.
C38_IndexInRange == ~OutOfRangeRead

\* the same for the lists that end where the outermost frame is executing
C38_IndexInRangeComplete == family # "truncated" => ~OutOfRangeRead

\* ------------------------------------------------------------------ C40
\* the pair behind a key of the cache
PairAt(k) == CHOOSE q \in Pairs : codeCacheKey(q[1], q[2]) = k
\* every entry of the cache is a code the node has answered and that has
\* been decoded in full: no failure and no partial value is stored
C40_NoStoredFailure ==
  \A i \in 1..Len(codeCache) :
    /\ \E q \in Pairs : codeCacheKey(q[1], q[2]) = codeCache[i].key
    /\ LET q == PairAt(codeCache[i].key)
           dec == Decode(EthGetCode(q[1], q[2]))
       IN  ~dec.err /\ codeCache[i].code = [addr |-> q[1], code |-> dec.bytes]
\* a failing network call or decoding ends the getCode with an error and
\* leaves the cache as it was
C40_FailureLeavesCache ==
  \A p \in Getters :
    NetworkCall(p) =>
      /\ gets'[p].err <=>
           (gets'[p].netErr
              \/ Decode(EthGetCode(PairOf(gets'[p])[1], PairOf(gets'[p])[2])).err)
      /\ gets'[p].err => (codeCache' = codeCache /\ gets'[p].code = <<>>)
\* a getCode of a pair that is not in the cache, as after a failure, goes to
\* the network; for a pair whose payload cannot be decoded that is every one
C40_NewCall ==
  \A p \in Getters :
    LookedUp(p) =>
      LET q == PairOf(gets'[p])
      IN  /\ codeCacheKey(q[1], q[2]) \notin CacheKeys(codeCache) => gets'[p].at = "net"
          /\ Decode(EthGetCode(q[1], q[2])).err => gets'[p].at = "net"
\* C40: when the network call or the hex decoding in getCode fails, getCode
\* returns an error and leaves the cache unchanged, so that a later getCode of
\* the same address and block makes a new network call and never returns a
\* stored failure or a stored partial value.
C40_FailuresNotCached ==
  []C40_NoStoredFailure /\ [][C40_FailureLeavesCache /\ C40_NewCall]_vars
\* the getCode of cd at block 1 has failed in the decoding in one task and in
\* the network call in the other, and the cache holds another pair
C40_Witness ==
  /\ \A p \in Getters :
       /\ gets[p].at = "done" /\ gets[p].err
       /\ PairOf(gets[p]) = << <<"c", "d">>, 1 >>
  /\ \E p \in Getters : gets[p].netErr
  /\ \E p \in Getters : ~gets[p].netErr
  /\ codeCache # <<>>
  /\ nGets = MaxGets

====
